---------------------------- MODULE Spec2Model ----------------------------
(***************************************************************************)
(* TraceMind: stack-trace parsers (src/src/parser.c), language detection   *)
(* (src/src/common.c) and input-format handling (src/src/input_format.c).  *)
(*                                                                         *)
(* C strings are TLA+ strings; a pointer into a string is a 0-based        *)
(* offset, and the byte at offset Len(s) is the terminating NUL.  A        *)
(* pointer that may be NULL is a sequence: NULL is <<>>, a pointer to v is *)
(* <<v>>.  The POSIX regular expressions of the parsers are written out    *)
(* as matchers with regexec's leftmost-longest result.                     *)
(***************************************************************************)
EXTENDS Integers, Sequences, FiniteSets, TLC

VARIABLES
    input,              \* tm_parse_stack_trace: const char *input (NULL or <<text>>)
    len,                \* tm_parse_stack_trace: size_t len
    pc,                 \* position of the call in progress
    buf,                \* tm_parse_stack_trace: the NUL-terminated copy handed to the parser
    cursor,             \* the parsers' const char *cursor, an offset into buf
    pending_function,   \* tm_parse_go_trace: char *pending_function
    trace,              \* the tm_stack_trace_t under construction
    result,             \* what tm_parse_stack_trace returns (NULL or <<trace>>)
    csv,                \* parse_csv_field: its arguments, locals and return value
    glog,               \* tm_parse_generic_log: its arguments, locals and the log
    unified,            \* tm_unified_parse: its arguments, out-parameters and return code
    scoring,            \* tm_score_entry_relevance, tm_extract_errors: the log and the copy
    detect,             \* tm_detect_input_format: the memory, its arguments and its result
    graph,              \* tm_graph_builder_build: the frames, the builder's locals and the graph
    extract,            \* the extraction functions of input_format.c: arguments and result
    logfmt,             \* tm_detect_log_format: its arguments and its result
    ast,                \* find_functions_recursive, tm_compute_complexity: the tree and the results
    session             \* tm_graph_builder_get_file: the builder's cache and the parse log

traceVars == <<input, len, pc, buf, cursor, pending_function, trace, result>>

lateVars == <<extract, logfmt, ast, session>>

moreVars == <<scoring, detect, graph, lateVars>>

vars == <<traceVars, csv, glog, unified, moreVars>>

-----------------------------------------------------------------------------
(* Bounds of the model *)

\* Longest generated input, in lines.
MaxLines == 3
\* Most function/location pairs in a generated Go panic.
MaxPairs == 2

-----------------------------------------------------------------------------
(* C library: characters and strings *)

NULL == <<>>

\* The element of a set of one element: binds a computed value to a name.
Only(S) == CHOOSE x \in S : TRUE

Ptr(v) == <<v>>

Deref(p) == p[1]

\* The byte at offset off of s; the terminating NUL (and anything past it) is "".
CharAt(s, off) == IF off >= 0 /\ off < Len(s) THEN SubSeq(s, off + 1, off + 1) ELSE ""

\* s[from, to): the bytes from offset from up to, not including, offset to or
\* the terminating NUL.
Slice(s, from, to) ==
    IF from >= Len(s) THEN "" ELSE SubSeq(s, from + 1, IF to > Len(s) THEN Len(s) ELSE to)

\* The C string starting at offset off of s.
StrFrom(s, off) == IF off >= Len(s) THEN "" ELSE SubSeq(s, off + 1, Len(s))

Digit == {"0", "1", "2", "3", "4", "5", "6", "7", "8", "9"}

Upper == {"A", "B", "C", "D", "E", "F", "G", "H", "I", "J", "K", "L", "M",
          "N", "O", "P", "Q", "R", "S", "T", "U", "V", "W", "X", "Y", "Z"}

Lower == {"a", "b", "c", "d", "e", "f", "g", "h", "i", "j", "k", "l", "m",
          "n", "o", "p", "q", "r", "s", "t", "u", "v", "w", "x", "y", "z"}

Alpha == Upper \cup Lower

\* isspace() in the C locale, over the characters the inputs use.
Space == {" ", "\t", "\n", "\r", "\f"}

DigitVal(c) ==
    CASE c = "0" -> 0 [] c = "1" -> 1 [] c = "2" -> 2 [] c = "3" -> 3
      [] c = "4" -> 4 [] c = "5" -> 5 [] c = "6" -> 6 [] c = "7" -> 7
      [] c = "8" -> 8 [] c = "9" -> 9

tolower(c) ==
    CASE c = "A" -> "a" [] c = "B" -> "b" [] c = "C" -> "c" [] c = "D" -> "d"
      [] c = "E" -> "e" [] c = "F" -> "f" [] c = "G" -> "g" [] c = "H" -> "h"
      [] c = "I" -> "i" [] c = "J" -> "j" [] c = "K" -> "k" [] c = "L" -> "l"
      [] c = "M" -> "m" [] c = "N" -> "n" [] c = "O" -> "o" [] c = "P" -> "p"
      [] c = "Q" -> "q" [] c = "R" -> "r" [] c = "S" -> "s" [] c = "T" -> "t"
      [] c = "U" -> "u" [] c = "V" -> "v" [] c = "W" -> "w" [] c = "X" -> "x"
      [] c = "Y" -> "y" [] c = "Z" -> "z" [] OTHER -> c

\* Whether the literal lit stands at offset off of s.
LitAt(s, off, lit) ==
    off >= 0 /\ off + Len(lit) <= Len(s) /\ SubSeq(s, off + 1, off + Len(lit)) = lit

\* The first offset in lo..hi at which lit stands in s, -1 when there is none
\* (the halves are searched left to right).
RECURSIVE FindLit(_, _, _, _)
FindLit(s, lo, hi, lit) ==
    IF lo > hi THEN -1
    ELSE IF lo = hi
    THEN IF SubSeq(s, lo + 1, lo + Len(lit)) = lit THEN lo ELSE -1
    ELSE LET mid == (lo + hi) \div 2
             left == FindLit(s, lo, mid, lit)
         IN  IF left /= -1 THEN left ELSE FindLit(s, mid + 1, hi, lit)

\* strstr(s + from, lit) as an offset into s, -1 for NULL.
strstr_from(s, from, lit) == FindLit(s, from, Len(s) - Len(lit), lit)

\* strstr(s, lit) != NULL
strstr(s, lit) == strstr_from(s, 0, lit) /= -1

\* strchr(s + from, c) as an offset into s, -1 for NULL.
strchr_from(s, from, c) == strstr_from(s, from, c)

\* The last offset in lo..hi whose byte is c, -1 when there is none.
RECURSIVE FindLastChar(_, _, _, _)
FindLastChar(s, lo, hi, c) ==
    IF lo > hi THEN -1
    ELSE IF lo = hi
    THEN IF SubSeq(s, lo + 1, lo + 1) = c THEN lo ELSE -1
    ELSE LET mid == (lo + hi) \div 2
             right == FindLastChar(s, mid + 1, hi, c)
         IN  IF right /= -1 THEN right ELSE FindLastChar(s, lo, mid, c)

\* strrchr(s, c) as an offset, -1 for NULL.
strrchr(s, c) == FindLastChar(s, 0, Len(s) - 1, c)

\* s with tolower() applied to every byte.
RECURSIVE StrLower(_)
StrLower(s) ==
    IF Len(s) = 0 THEN ""
    ELSE IF Len(s) = 1 THEN tolower(s)
    ELSE LET mid == Len(s) \div 2
         IN  StrLower(SubSeq(s, 1, mid)) \o StrLower(SubSeq(s, mid + 1, Len(s)))

\* strcasecmp(a, b) == 0
strcasecmp_eq(a, b) == StrLower(a) = StrLower(b)

\* strndup(s, n): at most n bytes of s.
tm_strndup(s, n) == IF n >= Len(s) THEN s ELSE SubSeq(s, 1, n)

\* tm_str_starts_with(s, prefix)
tm_str_starts_with(s, prefix) == LitAt(s, 0, prefix)

\* The first offset in lo..hi whose byte is in set (want) or is not in set
\* (~want), -1 when there is none.
RECURSIVE FindClass(_, _, _, _, _)
FindClass(s, lo, hi, set, want) ==
    IF lo > hi THEN -1
    ELSE IF lo = hi
    THEN IF (SubSeq(s, lo + 1, lo + 1) \in set) = want THEN lo ELSE -1
    ELSE LET mid == (lo + hi) \div 2
             left == FindClass(s, lo, mid, set, want)
         IN  IF left /= -1 THEN left ELSE FindClass(s, mid + 1, hi, set, want)

\* The first offset >= off whose byte is not in set (the NUL ends every run).
SpanIn(s, off, set) ==
    LET stop == FindClass(s, off, Len(s) - 1, set, FALSE)
    IN  IF stop = -1 THEN (IF off > Len(s) THEN off ELSE Len(s)) ELSE stop

\* The first offset >= off whose byte is in set or is the NUL.
SpanNotIn(s, off, set) ==
    LET stop == FindClass(s, off, Len(s) - 1, set, TRUE)
    IN  IF stop = -1 THEN (IF off > Len(s) THEN off ELSE Len(s)) ELSE stop

\* atoi() of a string of decimal digits.
RECURSIVE atoi_acc(_, _)
atoi_acc(s, acc) ==
    IF s = "" \/ Head(s) \notin Digit THEN acc
    ELSE atoi_acc(Tail(s), 10 * acc + DigitVal(Head(s)))

atoi(s) == atoi_acc(s, 0)

\* The line_str/col_str buffers of the parsers: char[32], a match cut to 31 bytes.
LineStrSize == 32

NumField(s, so, eo) ==
    atoi(Slice(s, so, IF eo - so >= LineStrSize THEN so + LineStrSize - 1 ELSE eo))

\* Whether offset off is a line start for a regexec() on s + from compiled
\* with REG_NEWLINE: the start of the string handed in, or just after a newline.
IsBol(s, from, off) == off = from \/ (off > from /\ CharAt(s, off - 1) = "\n")

\* The offset of the start of the next line after off, or -1 when no newline follows.
NextLine(s, off) ==
    LET nl == strchr_from(s, off, "\n") IN IF nl = -1 THEN -1 ELSE nl + 1

NoMatch == [ok |-> FALSE]


-----------------------------------------------------------------------------
(* Enumerations of include/tracemind.h *)

TM_OK == "TM_OK"
TM_ERR_INVALID_ARG == "TM_ERR_INVALID_ARG"
TM_ERR_PARSE == "TM_ERR_PARSE"
TM_ERR_IO == "TM_ERR_IO"
TM_ERR_UNSUPPORTED == "TM_ERR_UNSUPPORTED"

TM_LANG_UNKNOWN == "TM_LANG_UNKNOWN"
TM_LANG_PYTHON == "TM_LANG_PYTHON"
TM_LANG_GO == "TM_LANG_GO"
TM_LANG_NODEJS == "TM_LANG_NODEJS"

-----------------------------------------------------------------------------
(* common.c: language detection and path classification *)

\* ext_map[], in table order.
ext_map ==
    << [ext |-> ".py",  lang |-> TM_LANG_PYTHON],
       [ext |-> ".pyw", lang |-> TM_LANG_PYTHON],
       [ext |-> ".go",  lang |-> TM_LANG_GO],
       [ext |-> ".js",  lang |-> TM_LANG_NODEJS],
       [ext |-> ".mjs", lang |-> TM_LANG_NODEJS],
       [ext |-> ".cjs", lang |-> TM_LANG_NODEJS],
       [ext |-> ".ts",  lang |-> TM_LANG_NODEJS],
       [ext |-> ".tsx", lang |-> TM_LANG_NODEJS],
       [ext |-> ".jsx", lang |-> TM_LANG_NODEJS] >>

\* tm_detect_language(input), input not NULL.
tm_detect_language(s) ==
    IF strstr(s, "Traceback (most recent call last)")
         \/ strstr(s, "File \"") \/ strstr(s, ".py\", line")
    THEN TM_LANG_PYTHON
    ELSE IF strstr(s, "panic:") \/ strstr(s, "goroutine ") \/ strstr(s, ".go:")
    THEN TM_LANG_GO
    ELSE IF strstr(s, "at ")
              /\ (strstr(s, ".js:") \/ strstr(s, ".ts:")
                    \/ strstr(s, "Error:") \/ strstr(s, "TypeError:"))
    THEN TM_LANG_NODEJS
    ELSE LET dot == strrchr(s, ".")
             ext == StrFrom(s, dot)
             hit == {i \in 1..Len(ext_map) : strcasecmp_eq(ext, ext_map[i].ext)}
         IN  IF dot = -1 \/ hit = {} THEN TM_LANG_UNKNOWN
             ELSE ext_map[CHOOSE i \in hit : \A j \in hit : i <= j].lang

\* tm_is_stdlib_path(path, lang)
tm_is_stdlib_path(path, lang) ==
    CASE lang = TM_LANG_PYTHON ->
            strstr(path, "/lib/python") /\ ~strstr(path, "/site-packages/")
                /\ ~strstr(path, "/dist-packages/")
      [] lang = TM_LANG_GO ->
            tm_str_starts_with(path, "/usr/local/go/src/") \/ strstr(path, "GOROOT")
      [] lang = TM_LANG_NODEJS ->
            strstr(path, "internal/") \/ tm_str_starts_with(path, "node:")
      [] OTHER -> FALSE

\* tm_is_third_party_path(path, lang)
tm_is_third_party_path(path, lang) ==
    CASE lang = TM_LANG_PYTHON ->
            strstr(path, "/site-packages/") \/ strstr(path, "/dist-packages/")
      [] lang = TM_LANG_GO -> strstr(path, "/pkg/mod/") \/ strstr(path, "vendor/")
      [] lang = TM_LANG_NODEJS -> strstr(path, "/node_modules/")
      [] OTHER -> FALSE

-----------------------------------------------------------------------------
(* parser.c: frames and traces *)

\* tm_trace_new()
tm_trace_new ==
    [language |-> TM_LANG_UNKNOWN, error_type |-> NULL, error_message |-> NULL,
     frames |-> <<>>, raw_trace |-> NULL]

\* tm_frame_new(function, file, line, column), with the two path flags the
\* parsers set on the new frame before adding it.
tm_frame_new(function, file, line, column, lang) ==
    [function |-> function, file |-> file, line |-> line, column |-> column,
     is_stdlib |-> tm_is_stdlib_path(file, lang),
     is_third_party |-> tm_is_third_party_path(file, lang)]

\* tm_trace_add_frame(trace, frame)
tm_trace_add_frame(t, frame) == [t EXCEPT !.frames = Append(@, frame)]

frame_count(t) == Len(t.frames)

-----------------------------------------------------------------------------
(* parser.c: the regular expressions.  Each matcher is regexec(re, s + from):
   the leftmost match at or after offset from, longest at that start, as
   [ok, so, eo, ...] with absolute offsets into s (the code's cursor +
   rm_so), or NoMatch.  A group that did not take part has so = -1. *)

\* frame_re of tm_parse_python_trace, tried at offset i:
\*   File "([^"]+)", line ([0-9]+)(, in ([^[:space:]]+))?
py_frame_at(s, i) ==
    LET f0 == i + 6
        f1 == SpanNotIn(s, f0, {"\""})
        n0 == f1 + 8
        n1 == SpanIn(s, n0, Digit)
        g0 == n1 + 5
        g1 == SpanNotIn(s, g0, Space)
        has_fn == LitAt(s, n1, ", in ") /\ g1 > g0
    IN  IF LitAt(s, i, "File \"") /\ f1 > f0 /\ LitAt(s, f1, "\", line ") /\ n1 > n0
        THEN [ok |-> TRUE, so |-> i, eo |-> IF has_fn THEN g1 ELSE n1,
              g1so |-> f0, g1eo |-> f1, g2so |-> n0, g2eo |-> n1,
              g4so |-> IF has_fn THEN g0 ELSE -1, g4eo |-> IF has_fn THEN g1 ELSE -1]
        ELSE NoMatch

RECURSIVE py_frame_re(_, _)
py_frame_re(s, from) ==
    LET i == strstr_from(s, from, "File \"")
    IN  IF i = -1 THEN NoMatch
        ELSE IF py_frame_at(s, i).ok THEN py_frame_at(s, i)
        ELSE py_frame_re(s, i + 1)

\* The characters of [A-Za-z0-9_]
IdentChar == Alpha \cup Digit \cup {"_"}

\* Whether s[from, to) ends with suffix and has at least one byte before it.
EndsWithAfterOne(s, from, to, suffix) ==
    to - from >= Len(suffix) + 1 /\ LitAt(s, to - Len(suffix), suffix)

\* error_re of tm_parse_python_trace (REG_NEWLINE), tried at line start i:
\*   ^([A-Za-z][A-Za-z0-9_]*(Error|Exception|Warning)): (.*)$
py_error_at(s, i) ==
    LET e == SpanIn(s, i, IdentChar)
        m1 == SpanNotIn(s, e + 2, {"\n"})
    IN  IF CharAt(s, i) \in Alpha /\ LitAt(s, e, ": ")
            /\ \E suffix \in {"Error", "Exception", "Warning"} :
                   EndsWithAfterOne(s, i, e, suffix)
        THEN [ok |-> TRUE, so |-> i, eo |-> m1,
              g1so |-> i, g1eo |-> e, g3so |-> e + 2, g3eo |-> m1]
        ELSE NoMatch

RECURSIVE py_error_scan(_, _)
py_error_scan(s, i) ==
    IF i = -1 THEN NoMatch
    ELSE IF py_error_at(s, i).ok THEN py_error_at(s, i)
    ELSE py_error_scan(s, NextLine(s, i))

py_error_re(s, from) == py_error_scan(s, from)

\* func_re of tm_parse_go_trace (REG_NEWLINE), tried at line start i:
\*   ^([^[:space:](]+)\(
go_func_at(s, i) ==
    LET e == SpanNotIn(s, i, Space \cup {"("})
    IN  IF e > i /\ CharAt(s, e) = "("
        THEN [ok |-> TRUE, so |-> i, eo |-> e + 1, g1so |-> i, g1eo |-> e]
        ELSE NoMatch

RECURSIVE go_func_scan(_, _)
go_func_scan(s, i) ==
    IF i = -1 THEN NoMatch
    ELSE IF go_func_at(s, i).ok THEN go_func_at(s, i)
    ELSE go_func_scan(s, NextLine(s, i))

go_func_re(s, from) == go_func_scan(s, from)

\* loc_re of tm_parse_go_trace (REG_NEWLINE) with the leading white space
\* ending at offset k:  ^[[:space:]]+([^:]+\.go):([0-9]+)
\* The bracket [[:space:]] matches a newline; the non-matching list [^:] does not.
go_loc_with(s, i, k) ==
    LET e == SpanNotIn(s, k, {":", "\n"})
        n1 == SpanIn(s, e + 1, Digit)
    IN  IF CharAt(s, e) = ":" /\ EndsWithAfterOne(s, k, e, ".go") /\ n1 > e + 1
        THEN [ok |-> TRUE, so |-> i, eo |-> n1,
              g1so |-> k, g1eo |-> e, g2so |-> e + 1, g2eo |-> n1]
        ELSE NoMatch

\* loc_re tried at line start i: the white space takes the longest run that
\* still leaves a match.
go_loc_at(s, i) ==
    LET w == SpanIn(s, i, Space)
        ks == {k \in (i + 1)..w : go_loc_with(s, i, k).ok}
    IN  IF ks = {} THEN NoMatch
        ELSE go_loc_with(s, i, CHOOSE k \in ks : \A j \in ks : j <= k)

RECURSIVE go_loc_scan(_, _)
go_loc_scan(s, i) ==
    IF i = -1 THEN NoMatch
    ELSE IF go_loc_at(s, i).ok THEN go_loc_at(s, i)
    ELSE go_loc_scan(s, NextLine(s, i))

go_loc_re(s, from) == go_loc_scan(s, from)

\* panic_re of tm_parse_go_trace (REG_NEWLINE), tried at line start i:
\*   ^(panic|Error|error): (.*)$
go_panic_at(s, i) ==
    LET e == i + 5
        m1 == SpanNotIn(s, e + 2, {"\n"})
    IN  IF (LitAt(s, i, "panic") \/ LitAt(s, i, "Error") \/ LitAt(s, i, "error"))
            /\ LitAt(s, e, ": ")
        THEN [ok |-> TRUE, so |-> i, eo |-> m1,
              g1so |-> i, g1eo |-> e, g2so |-> e + 2, g2eo |-> m1]
        ELSE NoMatch

RECURSIVE go_panic_scan(_, _)
go_panic_scan(s, i) ==
    IF i = -1 THEN NoMatch
    ELSE IF go_panic_at(s, i).ok THEN go_panic_at(s, i)
    ELSE go_panic_scan(s, NextLine(s, i))

go_panic_re(s, from) == go_panic_scan(s, from)

\* frame_re of tm_parse_nodejs_trace, tried at offset i:
\*   at ([^ ]+) \(([^:]+):([0-9]+):([0-9]+)\)
node_frame_at(s, i) ==
    LET f0 == i + 3
        f1 == SpanNotIn(s, f0, {" "})
        p0 == f1 + 2
        p1 == SpanNotIn(s, p0, {":"})
        l0 == p1 + 1
        l1 == SpanIn(s, l0, Digit)
        c0 == l1 + 1
        c1 == SpanIn(s, c0, Digit)
    IN  IF LitAt(s, i, "at ") /\ f1 > f0 /\ LitAt(s, f1, " (") /\ p1 > p0
            /\ CharAt(s, p1) = ":" /\ l1 > l0 /\ CharAt(s, l1) = ":"
            /\ c1 > c0 /\ CharAt(s, c1) = ")"
        THEN [ok |-> TRUE, so |-> i, eo |-> c1 + 1,
              g1so |-> f0, g1eo |-> f1, g2so |-> p0, g2eo |-> p1,
              g3so |-> l0, g3eo |-> l1, g4so |-> c0, g4eo |-> c1]
        ELSE NoMatch

RECURSIVE node_frame_re(_, _)
node_frame_re(s, from) ==
    LET i == strstr_from(s, from, "at ")
    IN  IF i = -1 THEN NoMatch
        ELSE IF node_frame_at(s, i).ok THEN node_frame_at(s, i)
        ELSE node_frame_re(s, i + 1)

\* frame_bare_re of tm_parse_nodejs_trace, tried at offset i:
\*   at ([^:]+):([0-9]+):([0-9]+)
node_frame_bare_at(s, i) ==
    LET p0 == i + 3
        p1 == SpanNotIn(s, p0, {":"})
        l0 == p1 + 1
        l1 == SpanIn(s, l0, Digit)
        c0 == l1 + 1
        c1 == SpanIn(s, c0, Digit)
    IN  IF LitAt(s, i, "at ") /\ p1 > p0 /\ CharAt(s, p1) = ":"
            /\ l1 > l0 /\ CharAt(s, l1) = ":" /\ c1 > c0
        THEN [ok |-> TRUE, so |-> i, eo |-> c1,
              g1so |-> p0, g1eo |-> p1, g2so |-> l0, g2eo |-> l1,
              g3so |-> c0, g3eo |-> c1]
        ELSE NoMatch

RECURSIVE node_frame_bare_re(_, _)
node_frame_bare_re(s, from) ==
    LET i == strstr_from(s, from, "at ")
    IN  IF i = -1 THEN NoMatch
        ELSE IF node_frame_bare_at(s, i).ok THEN node_frame_bare_at(s, i)
        ELSE node_frame_bare_re(s, i + 1)

\* error_re of tm_parse_nodejs_trace (REG_NEWLINE), tried at line start i:
\*   ^([A-Za-z]+Error|[A-Za-z]+Exception): (.*)$
node_error_at(s, i) ==
    LET e == SpanIn(s, i, Alpha)
        m1 == SpanNotIn(s, e + 2, {"\n"})
    IN  IF LitAt(s, e, ": ")
            /\ \E suffix \in {"Error", "Exception"} : EndsWithAfterOne(s, i, e, suffix)
        THEN [ok |-> TRUE, so |-> i, eo |-> m1,
              g1so |-> i, g1eo |-> e, g2so |-> e + 2, g2eo |-> m1]
        ELSE NoMatch

RECURSIVE node_error_scan(_, _)
node_error_scan(s, i) ==
    IF i = -1 THEN NoMatch
    ELSE IF node_error_at(s, i).ok THEN node_error_at(s, i)
    ELSE node_error_scan(s, NextLine(s, i))

node_error_re(s, from) == node_error_scan(s, from)

-----------------------------------------------------------------------------
(* parser.c: the parsers, one step at a time.  A parser state p is the record
   [pc, buf, cursor, pending_function, trace, result]; each operator below is
   one step of the code on it. *)

\* tm_parse_stack_trace(input, len) down to the call of the language parser:
\* the NULL/zero-length check, the copy, and tm_parse_trace's language
\* detection, parser lookup and tm_trace_new().
tm_parse_stack_trace_call(in, n) ==
    LET b == tm_strndup(Deref(in), n)
        lang == tm_detect_language(b)
        idle == [pc |-> "done", buf |-> "", cursor |-> 0,
                 pending_function |-> NULL, trace |-> tm_trace_new, result |-> NULL]
    IN  IF in = NULL \/ n = 0 THEN idle
        ELSE IF lang = TM_LANG_UNKNOWN THEN [idle EXCEPT !.buf = b]
        ELSE [idle EXCEPT !.buf = b,
                          !.pc = CASE lang = TM_LANG_PYTHON -> "tm_parse_python_trace"
                                   [] lang = TM_LANG_GO -> "tm_parse_go_trace"
                                   [] lang = TM_LANG_NODEJS -> "tm_parse_nodejs_trace"]

\* tm_parse_python_trace: the prologue, up to the frame loop.
tm_parse_python_trace_begin(p) ==
    [p EXCEPT !.trace.language = TM_LANG_PYTHON, !.trace.raw_trace = Ptr(p.buf),
              !.cursor = 0, !.pc = "py_frames"]

\* tm_parse_python_trace_frame with the optional ", in <function>" group
\* ignored: C8 depends on the function being taken from the line.
tm_parse_python_trace_frame_no_function(p) ==
    LET m == py_frame_re(p.buf, p.cursor)
        file == Slice(p.buf, m.g1so, m.g1eo)
        line == NumField(p.buf, m.g2so, m.g2eo)
    IN  IF m.ok
        THEN [p EXCEPT !.trace = tm_trace_add_frame(@,
                                    tm_frame_new("<module>", file, line, 0, TM_LANG_PYTHON)),
                       !.cursor = m.eo]
        ELSE [p EXCEPT !.cursor = 0, !.pc = "py_error"]

\* tm_parse_python_trace: one test of the frame loop's condition, and its body.
tm_parse_python_trace_frame(p) ==
    LET m == py_frame_re(p.buf, p.cursor)
        file == Slice(p.buf, m.g1so, m.g1eo)
        line == NumField(p.buf, m.g2so, m.g2eo)
        function == IF m.g4so /= -1 THEN Slice(p.buf, m.g4so, m.g4eo) ELSE "<module>"
    IN  IF m.ok
        THEN [p EXCEPT !.trace = tm_trace_add_frame(@,
                                    tm_frame_new(function, file, line, 0, TM_LANG_PYTHON)),
                       !.cursor = m.eo]
        ELSE [p EXCEPT !.cursor = 0, !.pc = "py_error"]

\* An error loop that keeps the first match: a later match does not
\* overwrite error_type and error_message.
tm_parse_python_trace_error_keep_first(p) ==
    LET m == py_error_re(p.buf, p.cursor)
    IN  IF m.ok
        THEN IF p.trace.error_type /= NULL THEN [p EXCEPT !.cursor = m.eo]
             ELSE [p EXCEPT !.trace.error_type = Ptr(Slice(p.buf, m.g1so, m.g1eo)),
                            !.trace.error_message = Ptr(Slice(p.buf, m.g3so, m.g3eo)),
                            !.cursor = m.eo]
        ELSE [p EXCEPT !.pc = "parser_return"]

\* tm_parse_python_trace: one test of the error loop's condition, and its body.
tm_parse_python_trace_error(p) ==
    LET m == py_error_re(p.buf, p.cursor)
    IN  IF m.ok
        THEN [p EXCEPT !.trace.error_type = Ptr(Slice(p.buf, m.g1so, m.g1eo)),
                       !.trace.error_message = Ptr(Slice(p.buf, m.g3so, m.g3eo)),
                       !.cursor = m.eo]
        ELSE [p EXCEPT !.pc = "parser_return"]

\* tm_parse_go_trace: the prologue, with the panic/error header.
tm_parse_go_trace_begin(p) ==
    LET m == go_panic_re(p.buf, 0)
        t == [p.trace EXCEPT !.language = TM_LANG_GO, !.raw_trace = Ptr(p.buf)]
    IN  [p EXCEPT !.trace = IF m.ok
                            THEN [t EXCEPT !.error_type = Ptr(Slice(p.buf, m.g1so, m.g1eo)),
                                           !.error_message = Ptr(Slice(p.buf, m.g2so, m.g2eo))]
                            ELSE t,
                  !.cursor = 0, !.pending_function = NULL, !.pc = "go_scan"]

\* tm_parse_go_trace: one pass of while (*cursor).
tm_parse_go_trace_line(p) ==
    LET mf == go_func_re(p.buf, p.cursor)
        pending == IF mf.ok THEN Ptr(Slice(p.buf, mf.g1so, mf.g1eo))
                   ELSE p.pending_function
        ml == go_loc_re(p.buf, p.cursor)
        emit == ml.ok /\ pending /= NULL
        file == Slice(p.buf, ml.g1so, ml.g1eo)
        line == NumField(p.buf, ml.g2so, ml.g2eo)
        newline == strchr_from(p.buf, p.cursor, "\n")
    IN  IF CharAt(p.buf, p.cursor) = ""
        THEN [p EXCEPT !.pending_function = NULL, !.pc = "parser_return"]
        ELSE [p EXCEPT
                !.trace = IF emit
                          THEN tm_trace_add_frame(@,
                                   tm_frame_new(Deref(pending), file, line, 0, TM_LANG_GO))
                          ELSE @,
                !.pending_function = IF emit \/ newline = -1 THEN NULL ELSE pending,
                !.cursor = IF newline = -1 THEN @ ELSE newline + 1,
                !.pc = IF newline = -1 THEN "parser_return" ELSE @]

\* tm_parse_nodejs_trace: the prologue, with the error header.
tm_parse_nodejs_trace_begin(p) ==
    LET m == node_error_re(p.buf, 0)
        t == [p.trace EXCEPT !.language = TM_LANG_NODEJS, !.raw_trace = Ptr(p.buf)]
    IN  [p EXCEPT !.trace = IF m.ok
                            THEN [t EXCEPT !.error_type = Ptr(Slice(p.buf, m.g1so, m.g1eo)),
                                           !.error_message = Ptr(Slice(p.buf, m.g2so, m.g2eo))]
                            ELSE t,
                  !.cursor = 0, !.pc = "node_scan"]

\* The look-behind of the bare-frame branch:
\*   strstr(cursor + matches[0].rm_so - 5, "at ") != NULL
\* Five bytes before a match that starts within the first five bytes of the
\* buffer lie in front of the buffer: the read is undefined, and before_found
\* is what it then yields.
node_look_behind(s, so, before_found) ==
    IF so - 5 < 0 THEN before_found ELSE strstr_from(s, so - 5, "at ") /= -1

\* tm_parse_nodejs_trace: one pass of while (*cursor).
tm_parse_nodejs_trace_step(p, before_found) ==
    LET mf == node_frame_re(p.buf, p.cursor)
        mb == node_frame_bare_re(p.buf, p.cursor)
        full == tm_frame_new(Slice(p.buf, mf.g1so, mf.g1eo), Slice(p.buf, mf.g2so, mf.g2eo),
                             NumField(p.buf, mf.g3so, mf.g3eo),
                             NumField(p.buf, mf.g4so, mf.g4eo), TM_LANG_NODEJS)
        bare == tm_frame_new("<anonymous>", Slice(p.buf, mb.g1so, mb.g1eo),
                             NumField(p.buf, mb.g2so, mb.g2eo),
                             NumField(p.buf, mb.g3so, mb.g3eo), TM_LANG_NODEJS)
    IN  IF CharAt(p.buf, p.cursor) = "" THEN [p EXCEPT !.pc = "parser_return"]
        ELSE IF mf.ok
        THEN [p EXCEPT !.trace = tm_trace_add_frame(@, full), !.cursor = mf.eo]
        ELSE IF mb.ok /\ node_look_behind(p.buf, mb.so, before_found)
        THEN [p EXCEPT !.trace = tm_trace_add_frame(@, bare), !.cursor = mb.eo]
        ELSE [p EXCEPT !.cursor = @ + 1]

\* tm_parse_return without the test of frame_count: C6 depends on that test.
tm_parse_return_unchecked(p) ==
    [p EXCEPT !.result = Ptr(p.trace), !.pc = "done"]

\* The end of each parser (TM_ERR_PARSE when no frame was found), of
\* tm_parse_trace (the trace freed on an error) and of tm_parse_stack_trace
\* (NULL on an error).
tm_parse_return(p) ==
    LET err == IF frame_count(p.trace) = 0 THEN TM_ERR_PARSE ELSE TM_OK
    IN  [p EXCEPT !.result = IF err /= TM_OK THEN NULL ELSE Ptr(p.trace),
                  !.pc = "done"]

\* One step of the parser state p.
ParserStep(p, before_found) ==
    CASE p.pc = "tm_parse_python_trace" -> tm_parse_python_trace_begin(p)
      [] p.pc = "py_frames" -> tm_parse_python_trace_frame(p)
      [] p.pc = "py_error" -> tm_parse_python_trace_error(p)
      [] p.pc = "tm_parse_go_trace" -> tm_parse_go_trace_begin(p)
      [] p.pc = "go_scan" -> tm_parse_go_trace_line(p)
      [] p.pc = "tm_parse_nodejs_trace" -> tm_parse_nodejs_trace_begin(p)
      [] p.pc = "node_scan" -> tm_parse_nodejs_trace_step(p, before_found)
      [] p.pc = "parser_return" -> tm_parse_return(p)

RECURSIVE ParserRun(_, _)
ParserRun(p, before_found) ==
    IF p.pc = "done" THEN p
    ELSE Only({ParserRun(q, before_found) : q \in {ParserStep(p, before_found)}})

\* tm_parse_stack_trace(input, len) as a whole: NULL or <<trace>>.
tm_parse_stack_trace(in, n, before_found) ==
    ParserRun(tm_parse_stack_trace_call(in, n), before_found).result

-----------------------------------------------------------------------------
(* Inputs: the fixtures of tests/test_parser.c and texts put together from
   short lines of each language. *)

PYTHON_TRACE_SIMPLE ==
    "Traceback (most recent call last):\n"
    \o "  File \"/app/main.py\", line 42, in process_request\n"
    \o "    result = handler.execute(data)\n"
    \o "  File \"/app/handlers.py\", line 156, in execute\n"
    \o "    return self._run_query(query)\n"
    \o "  File \"/app/handlers.py\", line 203, in _run_query\n"
    \o "    cursor.execute(sql)\n"
    \o "psycopg2.errors.SyntaxError: syntax error at or near \"FROM\"\n"

GO_PANIC_SIMPLE ==
    "panic: runtime error: index out of range [5] with length 3\n"
    \o "\n"
    \o "goroutine 1 [running]:\n"
    \o "main.processItems(0xc0000a6000, 0x3, 0x8)\n"
    \o "        /home/user/project/main.go:45 +0x1a3\n"
    \o "main.handleRequest(0xc0000b2000)\n"
    \o "        /home/user/project/handlers.go:89 +0x85\n"
    \o "main.main()\n"
    \o "        /home/user/project/main.go:23 +0x45\n"

NODE_ERROR_SIMPLE ==
    "TypeError: Cannot read property 'id' of undefined\n"
    \o "    at UserService.getUser (/app/services/user.js:45:23)\n"
    \o "    at AuthController.authenticate (/app/controllers/auth.js:78:15)\n"
    \o "    at Router.handle (/app/router.js:34:12)\n"
    \o "    at Server.<anonymous> (/app/server.js:89:5)\n"

\* test_garbage_input
GARBAGE == "This is not a stack trace at all.\nJust random text.\n"

Fixtures == {PYTHON_TRACE_SIMPLE, GO_PANIC_SIMPLE, NODE_ERROR_SIMPLE, GARBAGE}

\* A Python frame line as the interpreter prints it; function "" leaves the
\* ", in <function>" part out.
PyFrameLine(f) ==
    "  File \"" \o f.file \o "\", line " \o f.num
        \o (IF f.function = "" THEN "" ELSE ", in " \o f.function)

PyFrames ==
    { [file |-> "/app/m.py", num |-> "42", line |-> 42, function |-> "handler"],
      [file |-> "/lib/n.py", num |-> "7", line |-> 7, function |-> ""] }

PyLines ==
    {PyFrameLine(f) : f \in PyFrames}
        \cup { "Traceback (most recent call last):", "    x = f(y)",
               "ValueError: bad value", "pkg.mod.KeyError: 'k'" }

\* A Go function line and the location line under it.
GoFuncLine(f) == f.function \o f.args

GoLocLine(l) == l.indent \o l.file \o ":" \o l.num \o l.tail

GoFuncs ==
    { [function |-> "main.run", args |-> "(0x1)"],
      [function |-> "lib.stop", args |-> "()"] }

GoLocs ==
    { [indent |-> "\t", file |-> "/app/a.go", num |-> "12", line |-> 12, tail |-> " +0x1f"],
      [indent |-> "    ", file |-> "/app/b.go", num |-> "7", line |-> 7, tail |-> ""] }

GoHeader == "panic: boom"

GoLines ==
    {GoFuncLine(f) : f \in GoFuncs} \cup {GoLocLine(l) : l \in GoLocs}
        \cup {GoHeader, "goroutine 1 [running]:"}

\* A Node.js frame line; function "" is the bare form.
NodeFrameLine(f) ==
    f.indent \o "at "
        \o (IF f.function = "" THEN f.file \o ":" \o f.num \o ":" \o f.colnum
            ELSE f.function \o " (" \o f.file \o ":" \o f.num \o ":" \o f.colnum \o ")")

NodeFrames ==
    { [indent |-> "    ", function |-> "Svc.get", file |-> "/app/u.js",
       num |-> "45", line |-> 45, colnum |-> "23", column |-> 23],
      [indent |-> "    ", function |-> "", file |-> "/app/r.js",
       num |-> "3", line |-> 3, colnum |-> "9", column |-> 9],
      [indent |-> "", function |-> "", file |-> "/s.ts",
       num |-> "8", line |-> 8, colnum |-> "1", column |-> 1] }

NodeHeader == "RangeError: x is undefined"

NodeLines == {NodeFrameLine(f) : f \in NodeFrames} \cup {NodeHeader, "just text"}

\* The sequences of at most n elements of set.
SeqsUpTo(set, n) == UNION {[1..k -> set] : k \in 0..n}

\* The lines of a sequence, each ended by a newline.
RECURSIVE JoinLines(_)
JoinLines(lines) ==
    IF lines = <<>> THEN "" ELSE Head(lines) \o "\n" \o JoinLines(Tail(lines))

\* A Go panic: the header, then the pairs, each a function line and its location line.
RECURSIVE GoPairLines(_)
GoPairLines(pairs) ==
    IF pairs = <<>> THEN <<>>
    ELSE <<GoFuncLine(Head(pairs).f), GoLocLine(Head(pairs).l)>> \o GoPairLines(Tail(pairs))

GoPanicText(pairs) == JoinLines(<<GoHeader>> \o GoPairLines(pairs))

GoPairSeqs == SeqsUpTo([f : GoFuncs, l : GoLocs], MaxPairs)

GeneratedTexts ==
    {JoinLines(ls) : ls \in SeqsUpTo(PyLines, MaxLines)}
        \cup {JoinLines(ls) : ls \in SeqsUpTo(GoLines, MaxLines)}
        \cup {JoinLines(ls) : ls \in SeqsUpTo(NodeLines, MaxLines)}
        \cup {GoPanicText(ps) : ps \in GoPairSeqs}

\* Python traces with more than one exception header: a chained
\* exception, one whose last header is qualified by its module, and one
\* whose last header has an empty message.
ChainedTexts ==
    { "Traceback (most recent call last):\n  File \"/app/m.py\", line 42, in handler\n"
        \o "ValueError: bad value\n\n"
        \o "During handling of the above exception, another exception occurred:\n\n"
        \o "Traceback (most recent call last):\n  File \"/lib/n.py\", line 7\n"
        \o "KeyError: 'k'\n",
      "Traceback (most recent call last):\n  File \"/app/m.py\", line 42, in handler\n"
        \o "ValueError: bad value\n\n"
        \o "Traceback (most recent call last):\n  File \"/lib/n.py\", line 7\n"
        \o "pkg.mod.KeyError: 'k'\n",
      "  File \"/app/m.py\", line 42, in handler\nKeyError: 'k'\nUserWarning: \n" }

\* The calls tm_parse_stack_trace(input, len) of the model: every text with
\* its length, the fixtures also with length 0, and the NULL input.
Calls ==
    {[input |-> Ptr(t), len |-> Len(t)] : t \in Fixtures \cup GeneratedTexts \cup ChainedTexts}
        \cup {[input |-> Ptr(t), len |-> 0] : t \in Fixtures}
        \cup {[input |-> NULL, len |-> 0]}

-----------------------------------------------------------------------------
(* tm_parse_stack_trace as a state machine *)

ParserState ==
    [pc |-> pc, buf |-> buf, cursor |-> cursor, pending_function |-> pending_function,
     trace |-> trace, result |-> result]

SetParser(p) ==
    /\ pc' = p.pc
    /\ buf' = p.buf
    /\ cursor' = p.cursor
    /\ pending_function' = p.pending_function
    /\ trace' = p.trace
    /\ result' = p.result
    /\ UNCHANGED <<input, len, csv, glog, unified, moreVars>>

Init ==
    /\ \E c \in Calls : input = c.input /\ len = c.len
    /\ pc = "call"
    /\ buf = ""
    /\ cursor = 0
    /\ pending_function = NULL
    /\ trace = tm_trace_new
    /\ result = NULL
    /\ scoring = NULL
    /\ detect = NULL
    /\ graph = NULL
    /\ extract = NULL
    /\ logfmt = NULL
    /\ ast = NULL
    /\ session = NULL
    /\ csv = NULL
    /\ glog = NULL
    /\ unified = NULL

Call == pc = "call" /\ SetParser(tm_parse_stack_trace_call(input, len))

PythonBegin == pc = "tm_parse_python_trace" /\ SetParser(tm_parse_python_trace_begin(ParserState))

PythonFrame == pc = "py_frames" /\ SetParser(tm_parse_python_trace_frame(ParserState))

PythonError == pc = "py_error" /\ SetParser(tm_parse_python_trace_error(ParserState))

GoBegin == pc = "tm_parse_go_trace" /\ SetParser(tm_parse_go_trace_begin(ParserState))

GoLine == pc = "go_scan" /\ SetParser(tm_parse_go_trace_line(ParserState))

NodeBegin == pc = "tm_parse_nodejs_trace" /\ SetParser(tm_parse_nodejs_trace_begin(ParserState))

NodeStep ==
    /\ pc = "node_scan"
    /\ \E before_found \in BOOLEAN :
           SetParser(tm_parse_nodejs_trace_step(ParserState, before_found))

ParserReturn == pc = "parser_return" /\ SetParser(tm_parse_return(ParserState))

Next ==
    \/ Call
    \/ PythonBegin
    \/ PythonFrame
    \/ PythonError
    \/ GoBegin
    \/ GoLine
    \/ NodeBegin
    \/ NodeStep
    \/ ParserReturn

Spec == Init /\ [][Next]_vars

-----------------------------------------------------------------------------
(* What the claims speak of: the text as lines, and the frames a reader of
   the text expects, one per frame line. *)

\* The lines of text from offset from on, without their newlines.
RECURSIVE LinesFrom(_, _)
LinesFrom(text, from) ==
    LET nl == strchr_from(text, from, "\n")
    IN  IF from >= Len(text) THEN <<>>
        ELSE IF nl = -1 THEN <<StrFrom(text, from)>>
        ELSE <<Slice(text, from, nl)>> \o LinesFrom(text, nl + 1)

LinesOf(text) == LinesFrom(text, 0)

\* (function, file, line, column) of every frame, in order.
FrameTuples(frames) ==
    [i \in 1..Len(frames) |->
        <<frames[i].function, frames[i].file, frames[i].line, frames[i].column>>]

\* The frames named by the Python frame lines among lines, in order.
RECURSIVE ExpectedPyFrames(_)
ExpectedPyFrames(lines) ==
    IF lines = <<>> THEN <<>>
    ELSE LET fs == {f \in PyFrames : PyFrameLine(f) = Head(lines)}
             f == CHOOSE f \in fs : TRUE
         IN  (IF fs = {} THEN <<>>
              ELSE << <<IF f.function = "" THEN "<module>" ELSE f.function,
                        f.file, f.line, 0>> >>)
                 \o ExpectedPyFrames(Tail(lines))

\* The frames named by the Node.js frame lines among lines, in order.
RECURSIVE ExpectedNodeFrames(_)
ExpectedNodeFrames(lines) ==
    IF lines = <<>> THEN <<>>
    ELSE LET fs == {f \in NodeFrames : NodeFrameLine(f) = Head(lines)}
             f == CHOOSE f \in fs : TRUE
         IN  (IF fs = {} THEN <<>>
              ELSE << <<IF f.function = "" THEN "<anonymous>" ELSE f.function,
                        f.file, f.line, f.column>> >>)
                 \o ExpectedNodeFrames(Tail(lines))

\* The frames of a Go panic made of pairs: the k-th function with the k-th location.
ExpectedGoFrames(pairs) ==
    [i \in 1..Len(pairs) |-> <<pairs[i].f.function, pairs[i].l.file, pairs[i].l.line, 0>>]

\* The call is over and was given the whole of text.
DoneOn(text) == pc = "done" /\ input = Ptr(text) /\ len = Len(text)

\* The call is over, was given a whole text, and the parser of lang ran on it.
DoneIn(lang) ==
    /\ pc = "done"
    /\ input /= NULL
    /\ len = Len(Deref(input))
    /\ trace.language = lang

-----------------------------------------------------------------------------
(* Claims on the stack-trace parsers *)

\* C1: tm_parse_go_trace, given a panic header followed by N consecutive
\* (function line, location line) pairs, produces exactly N frames, frame k
\* carrying the k-th function with the k-th file and line; the 3-pair fixture
\* gives frame_count = 3 with frames[0] = (/home/user/project/main.go, 45,
\* main.processItems).
C1_GoPairsOneFrameEach ==
    /\ \A ps \in GoPairSeqs \ {<<>>} :
           DoneOn(GoPanicText(ps)) =>
               /\ result /= NULL
               /\ FrameTuples(Deref(result).frames) = ExpectedGoFrames(ps)
    /\ DoneOn(GO_PANIC_SIMPLE) =>
           /\ result /= NULL
           /\ frame_count(Deref(result)) = 3
           /\ FrameTuples(Deref(result).frames)[1]
                  = <<"main.processItems", "/home/user/project/main.go", 45, 0>>

\* C2: on a Python traceback whose final line is a module-qualified exception
\* header <pkg>.<mod>.<Name>Error: <text>, the trace returned has a non-NULL
\* error_message that contains the exception type name.
C2_PythonQualifiedHeaderMessage ==
    /\ DoneOn(PYTHON_TRACE_SIMPLE) =>
           /\ result /= NULL
           /\ Deref(result).error_message /= NULL
           /\ strstr(Deref(Deref(result).error_message), "SyntaxError")
    /\ \A f \in PyFrames :
           DoneOn(JoinLines(<<PyFrameLine(f), "pkg.mod.KeyError: 'k'">>)) =>
               /\ result /= NULL
               /\ Deref(result).error_message /= NULL
               /\ strstr(Deref(Deref(result).error_message), "KeyError")

\* C3: on a Node.js trace with header line <Type>Error: <text>, the trace
\* returned has a non-NULL error_message that contains the error type name of
\* the header.
C3_NodeMessageNamesType ==
    /\ DoneOn(NODE_ERROR_SIMPLE) =>
           /\ result /= NULL
           /\ Deref(result).error_message /= NULL
           /\ strstr(Deref(Deref(result).error_message), "TypeError")
    /\ (DoneIn(TM_LANG_NODEJS) /\ result /= NULL
            /\ LinesOf(Deref(input))[1] = NodeHeader) =>
           /\ Deref(result).error_message /= NULL
           /\ strstr(Deref(Deref(result).error_message), "RangeError")

\* C6: tm_parse_stack_trace never returns a trace with zero frames: for NULL
\* input, zero length, text whose language cannot be detected, or text in
\* which the selected parser extracts no frame, it returns NULL, and every
\* non-NULL result has frame_count >= 1.
C6_NeverZeroFrames ==
    pc = "done" =>
        /\ result /= NULL => frame_count(Deref(result)) >= 1
        /\ (input = NULL \/ len = 0) => result = NULL
        /\ (input /= NULL /\ len > 0
                /\ tm_detect_language(tm_strndup(Deref(input), len)) = TM_LANG_UNKNOWN)
               => result = NULL
        /\ frame_count(trace) = 0 => result = NULL

\* C6 witness: a parser ran to its end without extracting a frame, and the
\* call returned NULL.
C6_Witness ==
    /\ pc = "done"
    /\ trace.language /= TM_LANG_UNKNOWN
    /\ frame_count(trace) = 0
    /\ result = NULL

\* C8: tm_parse_python_trace emits one frame per
\* File "<path>", line <n>[, in <function>] occurrence, in input order, with
\* path, line and function as written, and function <module> when the
\* ", in <function>" part is absent; the fixture gives 3 frames with
\* frames[0] = (/app/main.py, 42, process_request) and
\* frames[2] = (/app/handlers.py, 203, _run_query).
C8_PythonFramePerOccurrence ==
    /\ (DoneIn(TM_LANG_PYTHON) /\ Deref(input) \notin Fixtures) =>
           /\ FrameTuples(trace.frames) = ExpectedPyFrames(LinesOf(Deref(input)))
           /\ trace.frames /= <<>> => result = Ptr(trace)
    /\ DoneOn(PYTHON_TRACE_SIMPLE) =>
           /\ result /= NULL
           /\ frame_count(Deref(result)) = 3
           /\ FrameTuples(Deref(result).frames)[1]
                  = <<"process_request", "/app/main.py", 42, 0>>
           /\ FrameTuples(Deref(result).frames)[3]
                  = <<"_run_query", "/app/handlers.py", 203, 0>>

\* C8 witness: a generated Python text with a frame line of each form has been
\* parsed, the one without ", in <function>" giving function <module>.
C8_Witness ==
    /\ DoneIn(TM_LANG_PYTHON)
    /\ Deref(input) \notin Fixtures
    /\ result /= NULL
    /\ frame_count(Deref(result)) >= 2
    /\ \E i, j \in 1..frame_count(Deref(result)) :
           /\ Deref(result).frames[i].function = "<module>"
           /\ Deref(result).frames[j].function /= "<module>"

\* C9: tm_parse_nodejs_trace emits exactly one frame per frame line, in input
\* order, for every interleaving of full lines at <function> (<file>:<l>:<c>)
\* and bare lines at <file>:<l>:<c>, a bare line giving function <anonymous>.
C9_NodeFramePerLine ==
    (DoneIn(TM_LANG_NODEJS) /\ Deref(input) \notin Fixtures
         /\ LinesOf(Deref(input))[1] = NodeHeader) =>
        FrameTuples(trace.frames) = ExpectedNodeFrames(LinesOf(Deref(input)))

-----------------------------------------------------------------------------
(* input_format.c: CSV fields *)

\* Longest generated CSV field, in bytes.
MaxFieldLen == 3

\* tm_strbuf_append_len(sb, str, add_len) on a fresh or grown buffer: sb is
\* buf.data, NULL until the first non-empty append.
tm_strbuf_append_len(sb, str, add_len) ==
    IF add_len = 0 THEN sb
    ELSE Ptr((IF sb = NULL THEN "" ELSE Deref(sb)) \o Slice(str, 0, add_len))

\* parse_csv_field up to the test of the opening quote: the empty range, the
\* whole of an unquoted field, or the entry into a quoted one.
parse_csv_field_begin(c) ==
    LET s == c.content
        p == c.cursor
        stop == FindClass(s, p, c.end - 1, {c.delim, "\n", "\r"}, TRUE)
        q == IF stop = -1 THEN c.end ELSE stop
        after == IF q < c.end /\ CharAt(s, q) = c.delim THEN q + 1
                 ELSE IF q < c.end /\ CharAt(s, q) = "\r"
                 THEN (IF q + 1 < c.end /\ CharAt(s, q + 1) = "\n" THEN q + 2 ELSE q + 1)
                 ELSE IF q < c.end /\ CharAt(s, q) = "\n" THEN q + 1
                 ELSE q
    IN  IF p >= c.end
        THEN [c EXCEPT !.field = NULL, !.pc = "csv_done"]
        ELSE IF CharAt(s, p) = "\""
        THEN [c EXCEPT !.p = p + 1, !.start = p + 1, !.buf = NULL, !.pc = "csv_quoted"]
        ELSE [c EXCEPT !.field = Ptr(tm_strndup(StrFrom(s, p), q - p)),
                       !.cursor = after, !.pc = "csv_done"]

\* parse_csv_field_quoted keeping no byte of the escaped quote: C10 depends on
\* the first quote of a doubled pair being copied.
parse_csv_field_quoted_drop(c) ==
    LET s == c.content
        p == c.p
        closed == tm_strbuf_append_len(c.buf, StrFrom(s, c.start), p - c.start)
        q == p + 1
        after == IF q < c.end /\ CharAt(s, q) \in {c.delim, "\n", "\r"}
                 THEN (IF CharAt(s, q) = "\r" /\ q + 1 < c.end /\ CharAt(s, q + 1) = "\n"
                       THEN q + 2 ELSE q + 1)
                 ELSE q
    IN  IF p >= c.end
        THEN [c EXCEPT !.buf = closed, !.cursor = p, !.field = closed, !.pc = "csv_done"]
        ELSE IF CharAt(s, p) /= "\""
        THEN [c EXCEPT !.p = p + 1]
        ELSE IF p + 1 < c.end /\ CharAt(s, p + 1) = "\""
        THEN [c EXCEPT !.buf = closed, !.p = p + 2, !.start = p + 2]
        ELSE [c EXCEPT !.buf = closed, !.p = after, !.cursor = after,
                       !.field = closed, !.pc = "csv_done"]

\* parse_csv_field: one test of the quoted field's loop condition, and its
\* body or, when the loop is over, the return of an unterminated field.
parse_csv_field_quoted(c) ==
    LET s == c.content
        p == c.p
        closed == tm_strbuf_append_len(c.buf, StrFrom(s, c.start), p - c.start)
        q == p + 1
        after == IF q < c.end /\ CharAt(s, q) \in {c.delim, "\n", "\r"}
                 THEN (IF CharAt(s, q) = "\r" /\ q + 1 < c.end /\ CharAt(s, q + 1) = "\n"
                       THEN q + 2 ELSE q + 1)
                 ELSE q
    IN  IF p >= c.end
        THEN [c EXCEPT !.buf = closed, !.cursor = p, !.field = closed, !.pc = "csv_done"]
        ELSE IF CharAt(s, p) /= "\""
        THEN [c EXCEPT !.p = p + 1]
        ELSE IF p + 1 < c.end /\ CharAt(s, p + 1) = "\""
        THEN [c EXCEPT !.buf = tm_strbuf_append_len(c.buf, StrFrom(s, c.start),
                                                    p - c.start + 1),
                       !.p = p + 2, !.start = p + 2]
        ELSE [c EXCEPT !.buf = closed, !.p = after, !.cursor = after,
                       !.field = closed, !.pc = "csv_done"]

\* The state of a call parse_csv_field(&cursor, content + end, delim).
parse_csv_field_call(content, end, delim, cur, calls) ==
    [content |-> content, end |-> end, delim |-> delim, cursor |-> cur,
     p |-> cur, start |-> cur, buf |-> NULL, field |-> NULL,
     calls |-> calls, pc |-> "csv_call"]

RECURSIVE parse_csv_field_run(_)
parse_csv_field_run(c) ==
    IF c.pc = "csv_done" THEN c
    ELSE Only({parse_csv_field_run(d) :
               d \in {IF c.pc = "csv_call" THEN parse_csv_field_begin(c)
                      ELSE parse_csv_field_quoted(c)}})

\* parse_csv_field as one call: the field returned and the cursor it leaves.
parse_csv_field(content, end, delim, cur) ==
    LET c == parse_csv_field_run(parse_csv_field_call(content, end, delim, cur, 1))
    IN  [field |-> c.field, cursor |-> c.cursor]

\* The strings of exactly n bytes over alphabet.
RECURSIVE StrsOfLen(_, _)
StrsOfLen(alphabet, n) ==
    IF n = 0 THEN {""}
    ELSE {c \o t : c \in alphabet, t \in StrsOfLen(alphabet, n - 1)}

\* Field values: text, both delimiters and the quote, in every arrangement.
CsvFieldValues == UNION {StrsOfLen({"a", ",", "\t", "\""}, n) : n \in 0..MaxFieldLen}

\* x with every quote doubled.
RECURSIVE DoubleQuotes(_)
DoubleQuotes(x) ==
    IF x = "" THEN ""
    ELSE (IF CharAt(x, 0) = "\"" THEN "\"\"" ELSE CharAt(x, 0)) \o DoubleQuotes(StrFrom(x, 1))

\* The quoted form of the field value x.
QuoteField(x) == "\"" \o DoubleQuotes(x) \o "\""

\* What may follow a field: the end of the content, a delimiter and another
\* field, or a line end.
CsvRests == {"", ",z", "\tz", "\nz", "\r\nz"}

\* The quoted field of the CSV/TSV round trip and the value it stands for.
CsvRoundTripField == "\"a,b\"\"c\""
CsvRoundTripValue == "a,b\"c"

CsvContents ==
    {QuoteField(x) \o r : x \in CsvFieldValues, r \in CsvRests}
        \cup {CsvRoundTripField \o r : r \in CsvRests}
        \cup {"", "a", "a,b", "a\tb\n", "ab\r\nc", "\"a", "\"a\"\"", "a\"b\",c"}

CsvInit ==
    /\ \E content \in CsvContents, delim \in {",", "\t"} :
           csv = parse_csv_field_call(content, Len(content), delim, 0, 1)
    /\ input = NULL
    /\ len = 0
    /\ pc = "idle"
    /\ buf = ""
    /\ cursor = 0
    /\ pending_function = NULL
    /\ trace = tm_trace_new
    /\ result = NULL
    /\ scoring = NULL
    /\ detect = NULL
    /\ graph = NULL
    /\ extract = NULL
    /\ logfmt = NULL
    /\ ast = NULL
    /\ session = NULL
    /\ glog = NULL
    /\ unified = NULL

CsvFieldBegin ==
    /\ csv.pc = "csv_call"
    /\ csv' = parse_csv_field_begin(csv)
    /\ UNCHANGED <<traceVars, glog, unified, moreVars>>

CsvFieldQuoted ==
    /\ csv.pc = "csv_quoted"
    /\ csv' = parse_csv_field_quoted(csv)
    /\ UNCHANGED <<traceVars, glog, unified, moreVars>>

\* tm_extract_from_csv: the header loop calls parse_csv_field again while the
\* cursor stands before the end of the line.
CsvNextField ==
    /\ csv.pc = "csv_done"
    /\ csv.cursor < csv.end
    /\ CharAt(csv.content, csv.cursor) \notin {"\n", "\r"}
    /\ csv' = parse_csv_field_call(csv.content, csv.end, csv.delim, csv.cursor,
                                   csv.calls + 1)
    /\ UNCHANGED <<traceVars, glog, unified, moreVars>>

CsvNext ==
    \/ CsvFieldBegin
    \/ CsvFieldQuoted
    \/ CsvNextField

SpecCsv == CsvInit /\ [][CsvNext]_vars

\* C10: parse_csv_field decodes a quoted field so that a doubled quote becomes
\* one literal quote and an embedded delimiter stays part of the field: the
\* field "a,b""c" parses to a,b"c, for both ',' and tab delimiters, and so
\* does the quoted form of every other non-empty value.
C10_QuotedFieldDecodes ==
    (csv.pc = "csv_done" /\ csv.calls = 1) =>
        /\ \A r \in CsvRests :
               csv.content = CsvRoundTripField \o r => csv.field = Ptr(CsvRoundTripValue)
        /\ \A x \in CsvFieldValues \ {""}, r \in CsvRests :
               csv.content = QuoteField(x) \o r => csv.field = Ptr(x)

\* C10 witness: the field "a,b""c" has been parsed with the tab delimiter, a
\* further field following it.
C10_Witness ==
    /\ csv.pc = "csv_done"
    /\ csv.calls = 1
    /\ csv.delim = "\t"
    /\ csv.content = CsvRoundTripField \o "\tz"
    /\ csv.field = Ptr(CsvRoundTripValue)
    /\ csv.cursor = Len(CsvRoundTripField) + 1

-----------------------------------------------------------------------------
(* input_format.c: generic logs *)

\* tm_log_format_t
TM_LOG_FMT_UNKNOWN == "TM_LOG_FMT_UNKNOWN"
TM_LOG_FMT_STACKTRACE == "TM_LOG_FMT_STACKTRACE"
TM_LOG_FMT_NGINX == "TM_LOG_FMT_NGINX"
TM_LOG_FMT_APACHE == "TM_LOG_FMT_APACHE"
TM_LOG_FMT_SYSLOG == "TM_LOG_FMT_SYSLOG"
TM_LOG_FMT_DOCKER == "TM_LOG_FMT_DOCKER"
TM_LOG_FMT_KUBERNETES == "TM_LOG_FMT_KUBERNETES"
TM_LOG_FMT_JSON_STRUCT == "TM_LOG_FMT_JSON_STRUCT"
TM_LOG_FMT_CUSTOM == "TM_LOG_FMT_CUSTOM"

tm_log_format_t ==
    {TM_LOG_FMT_UNKNOWN, TM_LOG_FMT_STACKTRACE, TM_LOG_FMT_NGINX, TM_LOG_FMT_APACHE,
     TM_LOG_FMT_SYSLOG, TM_LOG_FMT_DOCKER, TM_LOG_FMT_KUBERNETES,
     TM_LOG_FMT_JSON_STRUCT, TM_LOG_FMT_CUSTOM}

tm_log_format_name(fmt) ==
    CASE fmt = TM_LOG_FMT_UNKNOWN -> "unknown"
      [] fmt = TM_LOG_FMT_STACKTRACE -> "stack-trace"
      [] fmt = TM_LOG_FMT_NGINX -> "nginx"
      [] fmt = TM_LOG_FMT_APACHE -> "apache"
      [] fmt = TM_LOG_FMT_SYSLOG -> "syslog"
      [] fmt = TM_LOG_FMT_DOCKER -> "docker"
      [] fmt = TM_LOG_FMT_KUBERNETES -> "kubernetes"
      [] fmt = TM_LOG_FMT_JSON_STRUCT -> "json-structured"
      [] fmt = TM_LOG_FMT_CUSTOM -> "custom"
      [] OTHER -> "unknown"

\* tm_analysis_mode_t
TM_MODE_STACK_TRACE == "TM_MODE_STACK_TRACE"
TM_MODE_GENERIC_LOG == "TM_MODE_GENERIC_LOG"

\* memchr(s + from, c, n) as an offset into s, -1 for NULL.
memchr(s, from, c, n) == FindLit(s, from, from + n - 1, c)

\* tm_strndup(s + from, n) for a count n computed as a pointer difference and
\* cast to size_t: a negative difference is a count beyond every string.
strndup_at(s, from, n) == IF n < 0 THEN StrFrom(s, from) ELSE tm_strndup(StrFrom(s, from), n)

\* strncasecmp(s + off, lit, Len(lit)) == 0
strncasecmp_eq(s, off, lit) == StrLower(Slice(s, off, off + Len(lit))) = StrLower(lit)

\* tm_has_stack_trace_patterns: content is NULL or <<text>>; the searches run
\* to the NUL of the text, whatever n is.
tm_has_stack_trace_patterns(content, n) ==
    IF content = NULL \/ n = 0 THEN FALSE
    ELSE LET s == Deref(content)
         IN  \/ strstr(s, "Traceback (most recent call last)")
             \/ (strstr(s, "File \"") /\ strstr(s, ", line "))
             \/ strstr(s, "panic:")
             \/ (strstr(s, "goroutine ") /\ strstr(s, ".go:"))
             \/ (strstr(s, "    at ") /\ (strstr(s, ".js:") \/ strstr(s, ".ts:")))
             \/ (strstr(s, "\n\tat ") /\ strstr(s, ".java:"))
             \/ strstr(s, "Exception in thread")

\* tm_detect_log_format: the sampling loop from line start p on, c the counts so far.
max_sample == 20

\* n, counted up on a hit.
bump(n, hit) == IF hit THEN n + 1 ELSE n

RECURSIVE detect_log_format_sample(_, _, _, _)
detect_log_format_sample(s, end, p, c) ==
    IF ~(p < end /\ c.sample_count < max_sample) THEN c
    ELSE LET nl == memchr(s, p, "\n", end - p)
             line_end == IF nl = -1 THEN end ELSE nl
             line_len == line_end - p
             bracket == memchr(s, p, "[", line_len)
             quote == memchr(s, p, "\"", line_len)
             json == CharAt(s, p) = "{" /\ line_len > 2
             nginx == /\ line_len > 20
                      /\ bracket /= -1 /\ quote /= -1 /\ bracket < quote
                      /\ memchr(s, p, ".", bracket - p) /= -1
             syslog == /\ line_len > 15
                       /\ \/ CharAt(s, p) = "<"
                          \/ /\ CharAt(s, p) \in Alpha
                             /\ CharAt(s, p + 1) \in Alpha
                             /\ CharAt(s, p + 2) \in Alpha
                             /\ CharAt(s, p + 3) = " "
                       /\ strstr_from(s, p, ": ") /= -1
             docker == /\ line_len > 30
                       /\ \/ LitAt(s, p + 23, " stdout ")
                          \/ LitAt(s, p + 23, " stderr ")
                          \/ strstr_from(s, p, "docker") /= -1
                          \/ strstr_from(s, p, "container") /= -1
         IN  detect_log_format_sample(s, end, line_end + 1,
                 IF line_len > 0
                 THEN [json_lines |-> bump(c.json_lines, json),
                       nginx_lines |-> bump(c.nginx_lines, nginx),
                       syslog_lines |-> bump(c.syslog_lines, syslog),
                       docker_lines |-> bump(c.docker_lines, docker),
                       sample_count |-> c.sample_count + 1]
                 ELSE c)

tm_detect_log_format(content, n) ==
    IF content = NULL \/ n = 0 THEN TM_LOG_FMT_UNKNOWN
    ELSE IF tm_has_stack_trace_patterns(content, n) THEN TM_LOG_FMT_STACKTRACE
    ELSE LET s == Deref(content)
             c == detect_log_format_sample(s, n, 0,
                      [json_lines |-> 0, nginx_lines |-> 0, syslog_lines |-> 0,
                       docker_lines |-> 0, sample_count |-> 0])
         IN  IF c.json_lines > c.sample_count \div 2 THEN TM_LOG_FMT_JSON_STRUCT
             ELSE IF c.nginx_lines > c.sample_count \div 2 THEN TM_LOG_FMT_NGINX
             ELSE IF c.syslog_lines > c.sample_count \div 2 THEN TM_LOG_FMT_SYSLOG
             ELSE IF c.docker_lines > c.sample_count \div 3 THEN TM_LOG_FMT_DOCKER
             ELSE IF \/ strstr(s, "kube-") \/ strstr(s, "pod/")
                     \/ strstr(s, "namespace=") \/ strstr(s, "kubernetes")
             THEN TM_LOG_FMT_KUBERNETES
             ELSE TM_LOG_FMT_CUSTOM

tm_detect_analysis_mode(content, n) ==
    IF content = NULL \/ n = 0 THEN TM_MODE_GENERIC_LOG
    ELSE LET fmt == tm_detect_log_format(content, n)
         IN  IF fmt = TM_LOG_FMT_STACKTRACE THEN TM_MODE_STACK_TRACE
             ELSE IF fmt = TM_LOG_FMT_JSON_STRUCT /\ tm_has_stack_trace_patterns(content, n)
             THEN TM_MODE_STACK_TRACE
             ELSE TM_MODE_GENERIC_LOG

\* jansson values: a string, an integer, an object (a function from its keys
\* to values) or an array (a sequence of values).
JString(v) == [type |-> "string", value |-> v]
JInteger(n) == [type |-> "integer", value |-> n]
JObject(members) == [type |-> "object", value |-> members]
JArray(elems) == [type |-> "array", value |-> elems]

json_is_string(j) == j /= NULL /\ Deref(j).type = "string"
json_is_integer(j) == j /= NULL /\ Deref(j).type = "integer"
json_is_object(j) == j /= NULL /\ Deref(j).type = "object"
json_is_array(j) == j /= NULL /\ Deref(j).type = "array"

\* json_object_get(obj, key): NULL unless obj is an object holding key.
json_object_get(obj, key) ==
    IF json_is_object(obj) /\ key \in DOMAIN Deref(obj).value
    THEN Ptr(Deref(obj).value[key])
    ELSE NULL

json_string_value(j) == Deref(j).value

\* The JSON texts of the inputs, each with the value json_loadb gives it and
\* the text json_dumps(JSON_COMPACT) gives that value back as.
JsonDocs ==
    { [text |-> "{\"level\":\"error\",\"msg\":\"db down\",\"ts\":\"t1\"}",
       value |-> JObject([level |-> JString("error"), msg |-> JString("db down"),
                          ts |-> JString("t1")]),
       compact |-> "{\"level\":\"error\",\"msg\":\"db down\",\"ts\":\"t1\"}"],
      [text |-> "{\"code\": 7}",
       value |-> JObject([code |-> JInteger(7)]),
       compact |-> "{\"code\":7}"],
      [text |-> "[1]",
       value |-> JArray(<<JInteger(1)>>),
       compact |-> "[1]"],
      [text |-> "{\"message\":\"panic: boom\\nmain.run(0x1)\\n\\t/app/a.go:12 +0x1f\\n\",\"timestamp\":\"t2\"}",
       value |-> JObject([message |-> JString("panic: boom\nmain.run(0x1)\n\t/app/a.go:12 +0x1f\n"),
                          timestamp |-> JString("t2")]),
       compact |-> "{\"message\":\"panic: boom\\nmain.run(0x1)\\n\\t/app/a.go:12 +0x1f\\n\",\"timestamp\":\"t2\"}"],
      [text |-> "[{\"severity\":\"ERROR\",\"textPayload\":\"panic: x\"}]",
       value |-> JArray(<<JObject([severity |-> JString("ERROR"),
                                  textPayload |-> JString("panic: x")])>>),
       compact |-> "[{\"severity\":\"ERROR\",\"textPayload\":\"panic: x\"}]"],
      [text |-> "[{\"severity\":\"ERROR\",\"textPayload\":\"Exception in thread main\",\"sourceLocation\":{\"file\":\"/app/a.go\",\"function\":\"main.run\",\"line\":12}}]",
       value |-> JArray(<<JObject([severity |-> JString("ERROR"),
                                  textPayload |-> JString("Exception in thread main"),
                                  sourceLocation |->
                                      JObject([file |-> JString("/app/a.go"),
                                               function |-> JString("main.run"),
                                               line |-> JInteger(12)])])>>),
       compact |-> "[{\"severity\":\"ERROR\",\"textPayload\":\"Exception in thread main\",\"sourceLocation\":{\"file\":\"/app/a.go\",\"function\":\"main.run\",\"line\":12}}]"] }

\* Log records that carry a sourceLocation and no trace, as JSON texts with
\* their values: two records and the array of both.
GcpDocs ==
    { [text |-> "{\"severity\":\"INFO\",\"message\":\"step one\",\"sourceLocation\":{\"file\":\"/app/a.go\",\"function\":\"main.run\",\"line\":\"12\"}}",
       value |-> JObject([severity |-> JString("INFO"), message |-> JString("step one"),
                          sourceLocation |->
                              JObject([file |-> JString("/app/a.go"),
                                       function |-> JString("main.run"),
                                       line |-> JString("12")])]),
       compact |-> "{\"severity\":\"INFO\",\"message\":\"step one\",\"sourceLocation\":{\"file\":\"/app/a.go\",\"function\":\"main.run\",\"line\":\"12\"}}"],
      [text |-> "{\"severity\":\"INFO\",\"message\":\"step two\",\"sourceLocation\":{\"file\":\"/app/b.go\",\"function\":\"main.step\",\"line\":7}}",
       value |-> JObject([severity |-> JString("INFO"), message |-> JString("step two"),
                          sourceLocation |->
                              JObject([file |-> JString("/app/b.go"),
                                       function |-> JString("main.step"),
                                       line |-> JInteger(7)])]),
       compact |-> "{\"severity\":\"INFO\",\"message\":\"step two\",\"sourceLocation\":{\"file\":\"/app/b.go\",\"function\":\"main.step\",\"line\":7}}"],
      [text |-> "[{\"severity\":\"INFO\",\"message\":\"step one\",\"sourceLocation\":{\"file\":\"/app/a.go\",\"function\":\"main.run\",\"line\":\"12\"}},{\"severity\":\"INFO\",\"message\":\"step two\",\"sourceLocation\":{\"file\":\"/app/b.go\",\"function\":\"main.step\",\"line\":7}}]",
       value |-> JArray(<<JObject([severity |-> JString("INFO"), message |-> JString("step one"),
                                  sourceLocation |->
                                      JObject([file |-> JString("/app/a.go"),
                                               function |-> JString("main.run"),
                                               line |-> JString("12")])]),
                          JObject([severity |-> JString("INFO"), message |-> JString("step two"),
                                  sourceLocation |->
                                      JObject([file |-> JString("/app/b.go"),
                                               function |-> JString("main.step"),
                                               line |-> JInteger(7)])])>>),
       compact |-> "[{\"severity\":\"INFO\",\"message\":\"step one\",\"sourceLocation\":{\"file\":\"/app/a.go\",\"function\":\"main.run\",\"line\":\"12\"}},{\"severity\":\"INFO\",\"message\":\"step two\",\"sourceLocation\":{\"file\":\"/app/b.go\",\"function\":\"main.step\",\"line\":7}}]"] }

\* text less the white space JSON allows around a value.
RECURSIVE json_trim(_)
json_trim(text) ==
    IF text = "" THEN ""
    ELSE IF CharAt(text, 0) \in {" ", "\t", "\n", "\r"} THEN json_trim(StrFrom(text, 1))
    ELSE IF CharAt(text, Len(text) - 1) \in {" ", "\t", "\n", "\r"}
    THEN json_trim(Slice(text, 0, Len(text) - 1))
    ELSE text

\* json_loadb(text): NULL for a text that is not JSON.
json_loadb(text) ==
    LET ds == {d \in JsonDocs \cup GcpDocs : d.text = json_trim(text)}
    IN  IF ds = {} THEN NULL ELSE Ptr((CHOOSE d \in ds : TRUE).value)

\* json_dumps(obj, JSON_COMPACT)
json_dumps(obj) ==
    (CHOOSE d \in JsonDocs \cup GcpDocs :
         d.value.type = Deref(obj).type /\ d.value = Deref(obj)).compact

\* The value of the first of keys that obj holds as a string, NULL when none is.
RECURSIVE first_string_field(_, _)
first_string_field(obj, keys) ==
    IF keys = <<>> THEN NULL
    ELSE IF json_is_string(json_object_get(obj, Head(keys)))
    THEN Ptr(json_string_value(json_object_get(obj, Head(keys))))
    ELSE first_string_field(obj, Tail(keys))

NoLine == [ok |-> FALSE, timestamp |-> NULL, severity |-> NULL, message |-> NULL,
           source |-> NULL, metadata |-> NULL]

parse_json_log_line(s, line, n) ==
    LET obj == json_loadb(Slice(s, line, line + n))
        found == first_string_field(obj, <<"message", "msg", "@message", "text", "log">>)
        message == IF found = NULL THEN Ptr(json_dumps(obj)) ELSE found
    IN  IF ~json_is_object(obj) THEN NoLine
        ELSE [ok |-> message /= NULL,
              timestamp |-> first_string_field(obj,
                  <<"timestamp", "time", "@timestamp", "ts", "datetime", "date">>),
              severity |-> first_string_field(obj,
                  <<"level", "severity", "loglevel", "log_level", "lvl">>),
              message |-> message,
              source |-> first_string_field(obj,
                  <<"source", "logger", "service", "component", "name">>),
              metadata |-> obj]

\* strtol(s + off, &pend, 10): [value, pend]; pend = off when no digits follow
\* the white space and sign.
strtol(s, off) ==
    LET ws == SpanIn(s, off, Space)
        signed == CharAt(s, ws) \in {"+", "-"}
        first == IF signed THEN ws + 1 ELSE ws
        last == SpanIn(s, first, Digit)
        magnitude == atoi(Slice(s, first, last))
    IN  IF last = first THEN [value |-> 0, pend |-> off]
        ELSE [value |-> IF CharAt(s, ws) = "-" THEN 0 - magnitude ELSE magnitude,
              pend |-> last]

syslog_levels == <<"EMERG", "ALERT", "CRITICAL", "ERROR", "WARNING", "NOTICE", "INFO", "DEBUG">>

parse_syslog_line(s, line, n) ==
    LET end == line + n
        lt == CharAt(s, line) = "<"
        num == strtol(s, line + 1)
        priority == IF lt THEN num.value ELSE -1
        p == IF ~lt THEN line
             ELSE IF CharAt(s, num.pend) = ">" THEN num.pend + 1 ELSE line + 1
        colon == strstr_from(s, p, ": ")
        space == memchr(s, p, " ", colon - p)
        q == IF space /= -1 THEN space + 1 ELSE p
    IN  IF n < 10 THEN NoLine
        ELSE IF colon = -1 \/ colon > end THEN NoLine
        ELSE [ok |-> TRUE,
              timestamp |-> IF space /= -1
                            THEN Ptr(tm_strndup(StrFrom(s, p),
                                                IF space - p > 30 THEN 30 ELSE space - p))
                            ELSE NULL,
              severity |-> IF priority >= 0 THEN Ptr(syslog_levels[(priority % 8) + 1])
                           ELSE NULL,
              message |-> Ptr(strndup_at(s, colon + 2, end - colon - 2)),
              source |-> IF space /= -1 THEN Ptr(tm_strndup(StrFrom(s, q), colon - q))
                         ELSE NULL,
              metadata |-> NULL]

\* parse_generic_line: the loop past the zone of an ISO 8601 timestamp.
RECURSIVE skip_timestamp_zone(_, _, _)
skip_timestamp_zone(s, p, lim) ==
    IF ~(p < lim /\ CharAt(s, p) \in ({" ", "Z", "+", "-"} \cup Digit)) THEN p
    ELSE IF CharAt(s, p) = " " /\ CharAt(s, p + 1) /= " " THEN p
    ELSE skip_timestamp_zone(s, p + 1, lim)

\* The first offset >= p, below lim at most, whose byte is not a blank.
RECURSIVE skip_blanks(_, _, _)
skip_blanks(s, p, lim) ==
    IF p < lim /\ CharAt(s, p) = " " THEN skip_blanks(s, p + 1, lim) ELSE p

generic_levels ==
    <<"ERROR", "WARN", "WARNING", "INFO", "DEBUG", "FATAL", "CRITICAL", "TRACE", "NOTICE">>

\* Whether level stands at p as [LEVEL] or as LEVEL followed by ':', ' ' or tab.
generic_level_at(s, p, level) ==
    IF CharAt(s, p) = "["
    THEN strncasecmp_eq(s, p + 1, level) /\ CharAt(s, p + 1 + Len(level)) = "]"
    ELSE strncasecmp_eq(s, p, level) /\ CharAt(s, p + Len(level)) \in {":", " ", "\t"}

parse_generic_line(s, line, n) ==
    LET lim == line + n
        iso == /\ n > 19
               /\ CharAt(s, line + 4) = "-" /\ CharAt(s, line + 7) = "-"
               /\ CharAt(s, line + 10) \in {"T", " "}
               /\ CharAt(s, line + 13) = ":"
        p0 == IF iso THEN skip_blanks(s, skip_timestamp_zone(s, line + 19, lim), lim)
              ELSE line
        hits == {i \in 1..Len(generic_levels) : generic_level_at(s, p0, generic_levels[i])}
        i == CHOOSE i \in hits : \A j \in hits : i <= j
        level == generic_levels[i]
        past == IF CharAt(s, p0) = "[" THEN p0 + 2 + Len(level)
                ELSE IF CharAt(s, p0 + Len(level)) = ":" THEN p0 + Len(level) + 1
                ELSE p0 + Len(level)
        p == IF hits = {} THEN p0 ELSE skip_blanks(s, past, lim)
        remaining == lim - p
        message == IF remaining /= 0 THEN Ptr(strndup_at(s, p, remaining)) ELSE NULL
    IN  IF n < 3 THEN NoLine
        ELSE [ok |-> message /= NULL,
              timestamp |-> IF iso THEN Ptr(tm_strndup(StrFrom(s, line), 19)) ELSE NULL,
              severity |-> IF hits = {} THEN NULL ELSE Ptr(level),
              message |-> message,
              source |-> NULL,
              metadata |-> NULL]

\* tm_generic_log_new
tm_generic_log_new ==
    [entries |-> <<>>, capacity |-> 64, detected_format |-> TM_LOG_FMT_UNKNOWN,
     format_description |-> NULL, time_range_start |-> NULL, time_range_end |-> NULL,
     total_errors |-> 0, total_warnings |-> 0, total_info |-> 0]

\* log->count
log_count(log) == Len(log.entries)

\* Whether severity is not NULL and strcasecmp() finds it among names.
severity_in(severity, names) ==
    severity /= NULL /\ \E name \in names : strcasecmp_eq(Deref(severity), name)

\* tm_generic_log_add_entry on a log that is not NULL; the string arguments
\* are NULL or <<text>>.
tm_generic_log_add_entry(log, timestamp, severity, message, source, raw_line, line_number) ==
    LET is_error == severity_in(severity, {"ERROR", "FATAL", "CRITICAL", "EMERG", "ALERT"})
        is_warning == ~is_error /\ severity_in(severity, {"WARN", "WARNING"})
        is_info == ~is_error /\ ~is_warning /\ severity_in(severity, {"INFO"})
        entry == [timestamp |-> timestamp, severity |-> severity, message |-> message,
                  source |-> source, raw_line |-> raw_line, line_number |-> line_number,
                  relevance_score |-> 0, is_error |-> is_error, is_anomaly |-> FALSE,
                  metadata |-> NULL]
    IN  IF message = NULL THEN log
        ELSE [log EXCEPT
                 !.capacity = IF log_count(log) >= @ THEN 2 * @ ELSE @,
                 !.entries = Append(@, entry),
                 !.total_errors = IF is_error THEN @ + 1 ELSE @,
                 !.total_warnings = IF is_warning THEN @ + 1 ELSE @,
                 !.total_info = IF is_info THEN @ + 1 ELSE @,
                 !.time_range_start = IF timestamp /= NULL /\ @ = NULL THEN timestamp ELSE @,
                 !.time_range_end = IF timestamp /= NULL THEN timestamp ELSE @]

\* tm_parse_generic_log up to its loop: the argument check, the new log and
\* the format taken from the hint or detected.
tm_parse_generic_log_call(content, n, format_hint) ==
    LET fmt == IF format_hint = TM_LOG_FMT_UNKNOWN THEN tm_detect_log_format(content, n)
               ELSE format_hint
    IN  IF content = NULL \/ n = 0
        THEN [content |-> content, len |-> n, format_hint |-> format_hint,
              line_start |-> 0, line_num |-> 0, log |-> NULL, pc |-> "glog_done"]
        ELSE [content |-> content, len |-> n, format_hint |-> format_hint,
              line_start |-> 0, line_num |-> 0,
              log |-> Ptr([tm_generic_log_new EXCEPT
                              !.detected_format = fmt,
                              !.format_description = Ptr(tm_log_format_name(fmt))]),
              pc |-> "glog_lines"]

\* The line parser tm_parse_generic_log's switch selects for fmt.
parse_line_as(fmt, s, line, n) ==
    IF fmt = TM_LOG_FMT_JSON_STRUCT THEN parse_json_log_line(s, line, n)
    ELSE IF fmt = TM_LOG_FMT_SYSLOG THEN parse_syslog_line(s, line, n)
    ELSE parse_generic_line(s, line, n)

\* The element of a singleton set.  Only({e(x) : x \in {v}}) is e(v) with v
\* computed once, however often e uses it.
\* The line starting at line_start: where it ends, its length, and its length
\* less the CR of a CRLF line end.
generic_log_line_at(s, end, line_start) ==
    Only({[line_end |-> line_end,
           full_len |-> line_end - line_start,
           line_len |-> IF line_end - line_start > 0 /\ CharAt(s, line_end - 1) = "\r"
                        THEN line_end - line_start - 1 ELSE line_end - line_start] :
          line_end \in {IF nl = -1 THEN end ELSE nl :
                           nl \in {memchr(s, line_start, "\n", end - line_start)}}})

\* The loop body adding no entry for a line its parser rejects, where the
\* code adds an entry whose message is the line itself.
generic_log_add_line_no_fallback(g, l, r) ==
    LET s == Deref(g.content)
        raw == Ptr(tm_strndup(StrFrom(s, g.line_start), l.line_len))
        added == tm_generic_log_add_entry(Deref(g.log), r.timestamp, r.severity,
                                          r.message, r.source, raw, g.line_num + 1)
        parsed == [added EXCEPT !.entries[Len(added.entries)].metadata = r.metadata]
    IN  [g EXCEPT !.line_num = @ + 1, !.line_start = l.line_end + 1,
                  !.log = IF r.ok /\ r.message /= NULL THEN Ptr(parsed) ELSE @]

\* tm_parse_generic_log's loop body past the line parser, r being what the
\* parser gave for the line l.
generic_log_add_line(g, l, r) ==
    LET s == Deref(g.content)
        raw == Ptr(tm_strndup(StrFrom(s, g.line_start), l.line_len))
        added == tm_generic_log_add_entry(Deref(g.log), r.timestamp, r.severity,
                                          r.message, r.source, raw, g.line_num + 1)
        parsed == [added EXCEPT !.entries[Len(added.entries)].metadata = r.metadata]
        unparsed == tm_generic_log_add_entry(Deref(g.log), NULL, NULL, raw, NULL, raw,
                                             g.line_num + 1)
    IN  [g EXCEPT !.line_num = @ + 1, !.line_start = l.line_end + 1,
                  !.log = Ptr(IF r.ok /\ r.message /= NULL THEN parsed ELSE unparsed)]

\* tm_parse_generic_log: one test of the loop's condition, and its body for
\* the line l: an empty line is skipped, any other line adds the entry its
\* parser builds or, when the parser rejects it, an entry whose message is the
\* line itself.
generic_log_line_step(g, l) ==
    LET s == Deref(g.content)
    IN  IF l.full_len = 0 \/ (l.full_len = 1 /\ CharAt(s, g.line_start) = "\r")
        THEN [g EXCEPT !.line_num = @ + 1, !.line_start = l.line_end + 1]
        ELSE Only({generic_log_add_line(g, l, r) :
                   r \in {parse_line_as(Deref(g.log).detected_format, s,
                                        g.line_start, l.line_len)}})

tm_parse_generic_log_line(g) ==
    IF ~(g.line_start < g.len) THEN [g EXCEPT !.pc = "glog_done"]
    ELSE Only({generic_log_line_step(g, l) :
               l \in {generic_log_line_at(Deref(g.content), g.len, g.line_start)}})

RECURSIVE tm_parse_generic_log_run(_)
tm_parse_generic_log_run(g) ==
    IF g.pc = "glog_done" THEN g
    ELSE Only({tm_parse_generic_log_run(h) : h \in {tm_parse_generic_log_line(g)}})

\* tm_parse_generic_log as one call: NULL or <<log>>.
tm_parse_generic_log(content, n, format_hint) ==
    tm_parse_generic_log_run(tm_parse_generic_log_call(content, n, format_hint)).log

\* Longest generated log, in lines.
MaxLogLines == 2

\* Log lines of every kind the line parsers tell apart: empty, blank, too
\* short, with a level, a timestamp alone, syslog, JSON with and without a
\* message, and lines ending in CR.
LogLines ==
    {"", "\r", "   ", "ab", "ERROR: boom", "[warn] low disk\r", "2024-01-15T10:30:00Z",
     "<11>Jan  5 host app: disk full",
     "{\"level\":\"error\",\"msg\":\"db down\",\"ts\":\"t1\"}", "{\"code\": 7}"}

\* text without its last byte.
Chop(text) == SubSeq(text, 1, Len(text) - 1)

\* Logs whose last line ends in a newline, and the same logs without it.
LogTexts ==
    LET whole == {JoinLines(ls) : ls \in SeqsUpTo(LogLines, MaxLogLines)}
    IN  whole \cup {Chop(t) : t \in whole \ {""}}

\* The calls made: every text in full under every format hint, a call that
\* passes fewer bytes than the text holds, a zero length, and NULL.
LogCalls ==
    {[content |-> Ptr(t), len |-> Len(t), format_hint |-> h] :
        t \in LogTexts \ {""}, h \in tm_log_format_t}
        \cup {[content |-> Ptr("INFO: hello\nnext"), len |-> 3, format_hint |-> h] :
                 h \in tm_log_format_t}
        \cup {[content |-> Ptr("ab\n"), len |-> 0, format_hint |-> TM_LOG_FMT_UNKNOWN],
              [content |-> NULL, len |-> 0, format_hint |-> TM_LOG_FMT_UNKNOWN]}

GenericLogInit ==
    /\ \E c \in LogCalls :
           glog = [content |-> c.content, len |-> c.len, format_hint |-> c.format_hint,
                   line_start |-> 0, line_num |-> 0, log |-> NULL, pc |-> "glog_call"]
    /\ input = NULL
    /\ len = 0
    /\ pc = "idle"
    /\ buf = ""
    /\ cursor = 0
    /\ pending_function = NULL
    /\ trace = tm_trace_new
    /\ result = NULL
    /\ scoring = NULL
    /\ detect = NULL
    /\ graph = NULL
    /\ extract = NULL
    /\ logfmt = NULL
    /\ ast = NULL
    /\ session = NULL
    /\ csv = NULL
    /\ unified = NULL

GenericLogCall ==
    /\ glog.pc = "glog_call"
    /\ glog' = tm_parse_generic_log_call(glog.content, glog.len, glog.format_hint)
    /\ UNCHANGED <<traceVars, csv, unified, moreVars>>

GenericLogLine ==
    /\ glog.pc = "glog_lines"
    /\ glog' = tm_parse_generic_log_line(glog)
    /\ UNCHANGED <<traceVars, csv, unified, moreVars>>

GenericLogNext ==
    \/ GenericLogCall
    \/ GenericLogLine

SpecGenericLog == GenericLogInit /\ [][GenericLogNext]_vars

\* The non-empty lines among lines, first to last: each with its 1-based
\* number and its text less the CR of a CRLF line end; a line that is empty,
\* or is a CR alone, is an empty line.
RECURSIVE NonEmptyLines(_, _)
NonEmptyLines(lines, num) ==
    IF lines = <<>> THEN <<>>
    ELSE LET l == Head(lines)
             text == IF l /= "" /\ CharAt(l, Len(l) - 1) = "\r" THEN Chop(l) ELSE l
         IN  (IF l \in {"", "\r"} THEN <<>> ELSE <<[line_number |-> num, text |-> text]>>)
                 \o NonEmptyLines(Tail(lines), num + 1)

\* C5: for every input and every format family, tm_parse_generic_log returns
\* a log whose entry count equals the number of non-empty input lines, entry
\* k being built from the k-th non-empty line (its raw_line is that line and
\* its line_number that line's number): lines are never dropped, duplicated
\* or reordered.
C5_OneEntryPerNonEmptyLine ==
    (glog.pc = "glog_done" /\ glog.content /= NULL /\ glog.len > 0) =>
        LET expected == NonEmptyLines(LinesOf(Slice(Deref(glog.content), 0, glog.len)), 1)
            entries == Deref(glog.log).entries
        IN  /\ glog.log /= NULL
            /\ Len(entries) = Len(expected)
            /\ \A k \in 1..Len(expected) :
                   /\ entries[k].raw_line = Ptr(expected[k].text)
                   /\ entries[k].line_number = expected[k].line_number
                   /\ entries[k].message /= NULL

\* C5 witness: a two-line log has been parsed as syslog, the line parser
\* taking one line and rejecting the other, and both lines have their entry.
C5_Witness ==
    /\ glog.pc = "glog_done"
    /\ glog.format_hint = TM_LOG_FMT_SYSLOG
    /\ glog.log /= NULL
    /\ Len(Deref(glog.log).entries) = 2
    /\ Deref(glog.log).entries[1].severity = Ptr("ERROR")
    /\ Deref(glog.log).entries[1].message = Ptr("disk full")
    /\ Deref(glog.log).entries[2].message = Deref(glog.log).entries[2].raw_line
    /\ Deref(glog.log).entries[2].line_number = 2

-----------------------------------------------------------------------------
(* input_format.c: structured input *)

\* tm_ifmt_t
TM_IFMT_AUTO == "TM_IFMT_AUTO"
TM_IFMT_RAW == "TM_IFMT_RAW"
TM_IFMT_JSON == "TM_IFMT_JSON"
TM_IFMT_JSON_ARRAY == "TM_IFMT_JSON_ARRAY"
TM_IFMT_CSV == "TM_IFMT_CSV"
TM_IFMT_TSV == "TM_IFMT_TSV"
TM_IFMT_GENERIC == "TM_IFMT_GENERIC"

\* tm_strcasestr(haystack, needle) != NULL, for a needle that is not empty.
tm_strcasestr(haystack, needle) == strstr(StrLower(haystack), StrLower(needle))

\* The number of offsets in lo..hi of s whose byte is c.
RECURSIVE CountChar(_, _, _, _)
CountChar(s, lo, hi, c) ==
    IF lo > hi THEN 0
    ELSE IF lo = hi THEN (IF CharAt(s, lo) = c THEN 1 ELSE 0)
    ELSE CountChar(s, lo, (lo + hi) \div 2, c) + CountChar(s, (lo + hi) \div 2 + 1, hi, c)

\* skip_whitespace(s, end) from offset off.
skip_whitespace(s, off, end) ==
    LET stop == FindClass(s, off, end - 1, Space, FALSE)
    IN  IF stop = -1 THEN (IF off > end THEN off ELSE end) ELSE stop

\* tm_detect_input_format: the test for header words, which tm_strcasestr
\* runs from p to the NUL of the content.
looks_like_headers(s, p) ==
    LET rest == StrLower(StrFrom(s, p))
    IN  \/ strstr(rest, "timestamp") \/ strstr(rest, "severity")
        \/ strstr(rest, "message") \/ strstr(rest, "textpayload")

\* tm_detect_input_format past the leading white space, p being the first
\* byte that is not white space.
detect_input_format_at(s, end, p) ==
    LET newline == memchr(s, p, "\n", end - p)
        tabs == CountChar(s, p, newline - 1, "\t")
        commas == CountChar(s, p, newline - 1, ",")
    IN  IF p >= end THEN TM_IFMT_RAW
        ELSE IF CharAt(s, p) = "[" THEN TM_IFMT_JSON_ARRAY
        ELSE IF CharAt(s, p) = "{" THEN TM_IFMT_JSON
        ELSE IF newline = -1 THEN TM_IFMT_RAW
        ELSE IF (tabs >= 2 \/ (tabs > 0 /\ tabs >= commas)) /\ looks_like_headers(s, p)
        THEN TM_IFMT_TSV
        ELSE IF commas >= 2 /\ looks_like_headers(s, p) THEN TM_IFMT_CSV
        ELSE TM_IFMT_RAW

tm_detect_input_format(content, n) ==
    IF content = NULL \/ n = 0 THEN TM_IFMT_RAW
    ELSE Only({detect_input_format_at(Deref(content), n, p) :
               p \in {skip_whitespace(Deref(content), 0, n)}})

\* looks_like_stack_trace(text) for a text that is not NULL.
looks_like_stack_trace(text) ==
    \/ strstr(text, "Traceback (most recent call last)")
    \/ (strstr(text, "File \"") /\ strstr(text, ", line "))
    \/ strstr(text, "panic:") \/ strstr(text, "goroutine ")
    \/ (strstr(text, ".go:") /\ strstr(text, "+0x"))
    \/ (strstr(text, "    at ") /\ (strstr(text, ".js:") \/ strstr(text, ".ts:")))
    \/ (strstr(text, "at ") /\ strstr(text, ".java:"))
    \/ (strstr(text, "Exception") /\ strstr(text, "\n\tat "))
    \/ /\ (strstr(text, "Error:") \/ strstr(text, "Exception:"))
       /\ (strstr(text, "\n\t") \/ strstr(text, "\n    at "))

\* log_entries_add(entries, text, timestamp, severity, source): entries is the
\* sequence of the tm_log_entries_t, text is NULL or <<text>>.
log_entries_add(entries, text, timestamp, severity, source) ==
    IF text = NULL THEN entries
    ELSE Append(entries, [text |-> Deref(text), timestamp |-> timestamp,
                          severity |-> severity, source |-> source])

\* find_column(headers, count, name): the 0-based index of the first header
\* equal to name whatever the case, -1 when there is none.
find_column(headers, name) ==
    LET hits == {i \in 1..Len(headers) : strcasecmp_eq(headers[i], name)}
    IN  IF hits = {} THEN -1 ELSE (CHOOSE i \in hits : \A j \in hits : i <= j) - 1

\* tm_extract_from_csv: the skip of one line end, CR then LF, at cur.
skip_line_end(s, end, cur) ==
    LET past_cr == IF cur < end /\ CharAt(s, cur) = "\r" THEN cur + 1 ELSE cur
    IN  IF past_cr < end /\ CharAt(s, past_cr) = "\n" THEN past_cr + 1 ELSE past_cr

\* tm_extract_from_csv: the header loop from cur on; a NULL field is no header.
RECURSIVE csv_header_row(_, _, _, _, _)
csv_header_row(s, end, delim, cur, headers) ==
    IF cur < end /\ CharAt(s, cur) \notin {"\n", "\r"}
    THEN Only({csv_header_row(s, end, delim, f.cursor,
                              IF f.field /= NULL THEN Append(headers, Deref(f.field))
                              ELSE headers) :
               f \in {parse_csv_field(s, end, delim, cur)}})
    ELSE [headers |-> headers, cursor |-> cur]

\* tm_extract_from_csv: the field loop of one data row from cur on.
RECURSIVE csv_row_fields(_, _, _, _, _, _)
csv_row_fields(s, end, delim, cur, fields, header_count) ==
    IF cur < end /\ CharAt(s, cur) \notin {"\n", "\r"} /\ Len(fields) < header_count
    THEN Only({csv_row_fields(s, end, delim, f.cursor, Append(fields, f.field),
                              header_count) :
               f \in {parse_csv_field(s, end, delim, cur)}})
    ELSE [fields |-> fields, cursor |-> cur]

\* tm_extract_from_csv: what a data row adds to entries, cols being the
\* columns found in the header.
csv_row_entry(entries, fields, cols) ==
    LET has(col) == col >= 0 /\ Len(fields) > col
    IN  IF /\ Len(fields) > cols.text /\ fields[cols.text + 1] /= NULL
           /\ looks_like_stack_trace(Deref(fields[cols.text + 1]))
        THEN log_entries_add(entries, fields[cols.text + 1],
                 IF has(cols.timestamp) THEN fields[cols.timestamp + 1] ELSE NULL,
                 IF has(cols.severity) THEN fields[cols.severity + 1] ELSE NULL,
                 NULL)
        ELSE entries

\* tm_extract_from_csv: the loop over the data rows from cur on.
RECURSIVE csv_data_rows(_, _, _, _, _, _, _)
csv_data_rows(s, end, delim, cur, cols, header_count, entries) ==
    IF ~(cur < end) THEN entries
    ELSE Only({csv_data_rows(s, end, delim, skip_line_end(s, end, row.cursor), cols,
                             header_count, csv_row_entry(entries, row.fields, cols)) :
               row \in {csv_row_fields(s, end, delim, cur, <<>>, header_count)}})

\* tm_extract_from_csv past the header row h: NULL, or <<entries>> with at
\* least one entry.
csv_extract_rows(s, end, delim, h) ==
    LET first(names) == LET found == {i \in 1..Len(names) : find_column(h.headers, names[i]) >= 0}
                        IN  IF found = {} THEN -1
                            ELSE find_column(h.headers,
                                     names[CHOOSE i \in found : \A j \in found : i <= j])
        cols == [text |-> first(<<"textPayload", "message", "text", "log">>),
                 timestamp |-> find_column(h.headers, "timestamp"),
                 severity |-> find_column(h.headers, "severity")]
    IN  IF Len(h.headers) = 0 \/ cols.text < 0 THEN NULL
        ELSE Only({IF entries = <<>> THEN NULL ELSE Ptr(entries) :
                   entries \in {Only({csv_data_rows(s, end, delim,
                                          skip_line_end(s, end, h.cursor), c,
                                          Len(h.headers), <<>>) : c \in {cols}})}})

tm_extract_from_csv(content, n, delimiter) ==
    IF content = NULL \/ n = 0 THEN NULL
    ELSE Only({csv_extract_rows(Deref(content), n, delimiter, h) :
               h \in {csv_header_row(Deref(content), n, delimiter, 0, <<>>)}})

-----------------------------------------------------------------------------
(* input_format.c: JSON extraction *)

\* The field names of a tm_log_fields_t; a name is NULL or <<name>>.
TM_GCP_LOG_FIELDS ==
    [text_payload |-> Ptr("textPayload"), json_payload |-> Ptr("jsonPayload"),
     message |-> Ptr("message"), stack_trace |-> Ptr("stack_trace"),
     timestamp |-> Ptr("timestamp"), severity |-> Ptr("severity"),
     log_events |-> NULL, error |-> Ptr("error"),
     exception |-> Ptr("exception"), traceback |-> Ptr("traceback")]

\* The tokens strtok_r cuts s into at the delimiter delim, in order.
RECURSIVE strtok_r(_, _)
strtok_r(s, delim) ==
    IF s = "" THEN <<>>
    ELSE IF strchr_from(s, 0, delim) = -1 THEN <<s>>
    ELSE IF strchr_from(s, 0, delim) = 0 THEN strtok_r(StrFrom(s, 1), delim)
    ELSE <<Slice(s, 0, strchr_from(s, 0, delim))>>
         \o strtok_r(StrFrom(s, strchr_from(s, 0, delim) + 1), delim)

\* json_get_nested: the loop over the tokens of the path.
RECURSIVE json_get_path(_, _)
json_get_path(current, tokens) ==
    IF tokens = <<>> \/ current = NULL THEN current
    ELSE IF ~json_is_object(current) THEN NULL
    ELSE json_get_path(json_object_get(current, Head(tokens)), Tail(tokens))

json_get_nested(obj, path) ==
    IF obj = NULL THEN NULL ELSE json_get_path(obj, strtok_r(path, "."))

\* json_get_string_copy(obj, key): NULL or <<the copy>>.
json_get_string_copy(obj, key) ==
    IF json_is_string(json_get_nested(obj, key))
    THEN Ptr(json_string_value(json_get_nested(obj, key)))
    ELSE NULL

\* extract_gcp_message(obj): NULL or <<message>>.
extract_gcp_message(obj) ==
    LET jp == json_object_get(obj, "jsonPayload")
        msg == json_object_get(jp, "message")
        inner == json_object_get(msg, "message")
        jmsg == json_object_get(jp, "msg")
        tp == json_object_get(obj, "textPayload")
        top == json_object_get(obj, "message")
    IN  IF obj = NULL THEN NULL
        ELSE IF json_is_object(jp) /\ json_is_object(msg) /\ json_is_string(inner)
        THEN Ptr(json_string_value(inner))
        ELSE IF json_is_object(jp) /\ json_is_string(msg) THEN Ptr(json_string_value(msg))
        ELSE IF json_is_object(jp) /\ json_is_string(jmsg) THEN Ptr(json_string_value(jmsg))
        ELSE IF json_is_string(tp) THEN Ptr(json_string_value(tp))
        ELSE IF json_is_string(top) THEN Ptr(json_string_value(top))
        ELSE NULL

has_source_location(obj) == json_is_object(json_object_get(obj, "sourceLocation"))

\* extract_trace_from_json_obj trying the message before the explicit
\* stack_trace field.
trace_field_attempts_message_first(f) ==
    (IF f.text_payload /= NULL THEN <<[key |-> Deref(f.text_payload), test |-> "looks"]>>
     ELSE <<>>)
    \o (IF f.message /= NULL THEN <<[key |-> Deref(f.message), test |-> "looks"]>> ELSE <<>>)
    \o (IF f.stack_trace /= NULL THEN <<[key |-> Deref(f.stack_trace), test |-> "nonempty"]>>
        ELSE <<>>)
    \o <<[key |-> "exception", test |-> "looks"], [key |-> "traceback", test |-> "looks"],
         [key |-> "stacktrace", test |-> "looks"], [key |-> "stack_trace", test |-> "looks"],
         [key |-> "error.stack", test |-> "looks"], [key |-> "err.stack", test |-> "looks"]>>
    \o (IF f.json_payload /= NULL
        THEN <<[key |-> Deref(f.json_payload) \o "."
                        \o (IF f.message /= NULL THEN Deref(f.message) ELSE "message"),
                test |-> "looks"]>>
        ELSE <<>>)
    \o (IF f.error /= NULL THEN <<[key |-> Deref(f.error), test |-> "looks"]>> ELSE <<>>)

\* extract_trace_from_json_obj: the keys it tries, in its order, each with
\* the test its value has to pass ("looks": looks_like_stack_trace, "nonempty":
\* strlen > 0).
trace_field_attempts(f) ==
    (IF f.text_payload /= NULL THEN <<[key |-> Deref(f.text_payload), test |-> "looks"]>>
     ELSE <<>>)
    \o (IF f.stack_trace /= NULL THEN <<[key |-> Deref(f.stack_trace), test |-> "nonempty"]>>
        ELSE <<>>)
    \o <<[key |-> "exception", test |-> "looks"], [key |-> "traceback", test |-> "looks"],
         [key |-> "stacktrace", test |-> "looks"], [key |-> "stack_trace", test |-> "looks"],
         [key |-> "error.stack", test |-> "looks"], [key |-> "err.stack", test |-> "looks"]>>
    \o (IF f.json_payload /= NULL
        THEN <<[key |-> Deref(f.json_payload) \o "."
                        \o (IF f.message /= NULL THEN Deref(f.message) ELSE "message"),
                test |-> "looks"]>>
        ELSE <<>>)
    \o (IF f.message /= NULL THEN <<[key |-> Deref(f.message), test |-> "looks"]>> ELSE <<>>)
    \o (IF f.error /= NULL THEN <<[key |-> Deref(f.error), test |-> "looks"]>> ELSE <<>>)

\* extract_trace_from_json_obj: the first of attempts whose value passes its test.
RECURSIVE first_trace_field(_, _)
first_trace_field(obj, attempts) ==
    IF attempts = <<>> THEN NULL
    ELSE Only({IF /\ r /= NULL
                  /\ IF Head(attempts).test = "looks" THEN looks_like_stack_trace(Deref(r))
                     ELSE Len(Deref(r)) > 0
               THEN r
               ELSE first_trace_field(obj, Tail(attempts)) :
               r \in {json_get_string_copy(obj, Head(attempts).key)}})

\* extract_trace_from_json_obj(obj, fields): NULL or <<trace text>>; fields is
\* NULL or <<tm_log_fields_t>>.
extract_trace_from_json_obj(obj, fields) ==
    IF obj = NULL \/ ~json_is_object(obj) THEN NULL
    ELSE first_trace_field(obj, trace_field_attempts(
             IF fields /= NULL THEN Deref(fields) ELSE TM_GCP_LOG_FIELDS))

\* build_trace_from_gcp_logs: the frames it keeps of one log.
gcp_frame_limit == 50

\* The least element of a set of integers that is not empty.
Least(S) == CHOOSE i \in S : \A j \in S : i <= j

\* build_trace_from_gcp_logs: whether severity names an error.
gcp_error_severity(obj) ==
    /\ json_is_string(json_object_get(obj, "severity"))
    /\ \E name \in {"ERROR", "CRITICAL", "FATAL"} :
           strcasecmp_eq(json_string_value(json_object_get(obj, "severity")), name)

\* build_trace_from_gcp_logs: what the first entry with an error severity
\* puts at the head of the trace.
gcp_error_head(obj) ==
    LET msg == extract_gcp_message(obj)
        err == json_object_get(json_object_get(json_object_get(
                   json_object_get(obj, "jsonPayload"), "message"), "variables"), "err")
    IN  (IF msg /= NULL THEN "Error: " \o Deref(msg) \o "\n\n" ELSE "")
        \o (IF json_is_string(err) THEN "Cause: " \o json_string_value(err) \o "\n\n"
            ELSE "")

\* build_trace_from_gcp_logs: whether the message of obj reads like an error.
gcp_error_like(obj) ==
    /\ extract_gcp_message(obj) /= NULL
    /\ \E word \in {"error", "Error", "fail", "Fail"} :
           strstr(Deref(extract_gcp_message(obj)), word)

\* build_trace_from_gcp_logs: the two lines of the frame of obj, "" when obj
\* gives no frame.
gcp_frame(obj) ==
    LET sl == json_object_get(obj, "sourceLocation")
        func == json_object_get(sl, "function")
        file == json_object_get(sl, "file")
        line == json_object_get(sl, "line")
    IN  IF has_source_location(obj) /\ json_is_string(func) /\ json_is_string(file)
        THEN json_string_value(func) \o "(...)\n" \o "\t" \o json_string_value(file) \o ":"
             \o (IF json_is_string(line) THEN json_string_value(line)
                 ELSE IF json_is_integer(line) THEN ToString(Deref(line).value)
                 ELSE "0")
             \o " +0x0\n"
        ELSE ""

\* build_trace_from_gcp_logs: the frames of elems from index idx on, count
\* frames having been written.
RECURSIVE gcp_frames(_, _, _)
gcp_frames(elems, idx, count) ==
    IF idx > Len(elems) \/ count >= gcp_frame_limit THEN [text |-> "", count |-> count]
    ELSE Only({Only({[text |-> fr \o rest.text, count |-> rest.count] :
                     rest \in {gcp_frames(elems, idx + 1,
                                          IF fr = "" THEN count ELSE count + 1)}}) :
               fr \in {gcp_frame(Ptr(elems[idx]))}})

\* build_trace_from_gcp_logs(arr): NULL or <<the synthetic trace>>.
build_trace_from_gcp_logs(arr) ==
    IF arr = NULL \/ ~json_is_array(arr) THEN NULL
    ELSE LET elems == Deref(arr).value
             errors == {i \in 1..Len(elems) : gcp_error_severity(Ptr(elems[i]))}
             likes == {i \in 1..Len(elems) : gcp_error_like(Ptr(elems[i]))}
             found_error == errors /= {} \/ likes /= {}
             head == IF errors /= {} THEN gcp_error_head(Ptr(elems[Least(errors)]))
                     ELSE IF likes /= {}
                     THEN "Error: " \o Deref(extract_gcp_message(Ptr(elems[Least(likes)])))
                          \o "\n\n"
                     ELSE ""
         IN  Only({IF fs.count = 0 /\ ~found_error THEN NULL
                   ELSE Ptr(head \o "goroutine 1 [running]:\n" \o fs.text) :
                   fs \in {gcp_frames(elems, 1, 0)}})

\* tm_extract_from_json and tm_extract_from_json_array: what obj adds to entries.
json_obj_entry(entries, obj, f) ==
    Only({IF tr = NULL THEN entries
          ELSE log_entries_add(entries, tr,
                   IF f.timestamp /= NULL THEN json_get_string_copy(obj, Deref(f.timestamp))
                   ELSE NULL,
                   IF f.severity /= NULL THEN json_get_string_copy(obj, Deref(f.severity))
                   ELSE NULL,
                   NULL) :
          tr \in {extract_trace_from_json_obj(obj, Ptr(f))}})

\* tm_extract_from_json: the loop over the lines from line_start on.
RECURSIVE json_lines(_, _, _, _, _)
json_lines(s, end, line_start, f, entries) ==
    IF ~(line_start < end) THEN entries
    ELSE LET nl == memchr(s, line_start, "\n", end - line_start)
             line_end == IF nl = -1 THEN end ELSE nl
             line_len == line_end - line_start
         IN  IF line_len = 0 \/ (line_len = 1 /\ CharAt(s, line_start) = "\r")
             THEN json_lines(s, end, line_end + 1, f, entries)
             ELSE Only({json_lines(s, end, line_end + 1, f,
                                   IF json_is_object(obj) THEN json_obj_entry(entries, obj, f)
                                   ELSE entries) :
                        obj \in {json_loadb(Slice(s, line_start, line_end))}})

\* tm_extract_from_json(content, len, fields): NULL or <<entries>>.
tm_extract_from_json(content, n, fields) ==
    IF content = NULL \/ n = 0 THEN NULL
    ELSE Only({IF entries = <<>> THEN NULL ELSE Ptr(entries) :
               entries \in {json_lines(Deref(content), n, 0,
                                IF fields /= NULL THEN Deref(fields) ELSE TM_GCP_LOG_FIELDS,
                                <<>>)}})

\* tm_extract_from_json_array: the loop over the elements from index idx on.
RECURSIVE json_array_entries(_, _, _, _)
json_array_entries(elems, idx, f, entries) ==
    IF idx > Len(elems) THEN entries
    ELSE json_array_entries(elems, idx + 1, f,
             IF json_is_object(Ptr(elems[idx]))
             THEN json_obj_entry(entries, Ptr(elems[idx]), f)
             ELSE entries)

\* tm_extract_from_json_array(content, len, fields): NULL or <<entries>>.
tm_extract_from_json_array(content, n, fields) ==
    IF content = NULL \/ n = 0 THEN NULL
    ELSE Only({IF ~json_is_array(root) THEN NULL
               ELSE Only({IF entries /= <<>> THEN Ptr(entries)
                          ELSE Only({IF gcp_trace = NULL THEN NULL
                                     ELSE Ptr(log_entries_add(<<>>, gcp_trace, NULL,
                                                              Ptr("ERROR"), NULL)) :
                                     gcp_trace \in {build_trace_from_gcp_logs(root)}}) :
                          entries \in {json_array_entries(Deref(root).value, 1,
                                           IF fields /= NULL THEN Deref(fields)
                                           ELSE TM_GCP_LOG_FIELDS, <<>>)}}) :
               root \in {json_loadb(Slice(Deref(content), 0, n))}})

\* tm_extract_stack_traces: the entries from index i on, joined.
RECURSIVE concat_entries(_, _)
concat_entries(entries, i) ==
    IF i > Len(entries) THEN ""
    ELSE (IF i > 1
          THEN "\n\n--- Entry " \o ToString(i)
               \o (IF entries[i].timestamp /= NULL
                   THEN " (" \o Deref(entries[i].timestamp) \o ")" ELSE "")
               \o " ---\n\n"
          ELSE "")
         \o entries[i].text \o concat_entries(entries, i + 1)

\* tm_extract_stack_traces(content, len, format_hint): NULL or <<text>>.
tm_extract_stack_traces(content, n, format_hint) ==
    IF content = NULL \/ n = 0 THEN NULL
    ELSE LET s == Deref(content)
             format == IF format_hint = TM_IFMT_AUTO THEN tm_detect_input_format(content, n)
                       ELSE format_hint
             p == FindClass(s, 0, n - 1, {" ", "\t", "\n", "\r"}, FALSE)
             entries == CASE format \in {TM_IFMT_JSON, TM_IFMT_JSON_ARRAY} ->
                                 IF p /= -1 /\ CharAt(s, p) = "["
                                 THEN tm_extract_from_json_array(content, n, NULL)
                                 ELSE tm_extract_from_json(content, n, NULL)
                          [] format = TM_IFMT_CSV -> tm_extract_from_csv(content, n, ",")
                          [] format = TM_IFMT_TSV -> tm_extract_from_csv(content, n, "\t")
                          [] OTHER -> NULL
         IN  IF format \notin {TM_IFMT_JSON, TM_IFMT_JSON_ARRAY, TM_IFMT_CSV, TM_IFMT_TSV}
             THEN Ptr(tm_strndup(s, n))
             ELSE Only({IF e = NULL \/ Deref(e) = <<>> THEN Ptr(tm_strndup(s, n))
                        ELSE Ptr(concat_entries(Deref(e), 1)) :
                        e \in {entries}})

-----------------------------------------------------------------------------
(* input_format.c: relevance scores.  A float is held as the integer number
   of 2^-26 it is; every float the scores reach is such a multiple. *)

\* 0.15f, 0.2f, 0.25f, 0.3f, 0.35f, 0.4f, 0.5f and 1.0f
F_0_15 == 10066330
F_0_2 == 13421773
F_0_25 == 16777216
F_0_3 == 20132660
F_0_35 == 23488102
F_0_4 == 26843546
F_0_5 == 33554432
F_1_0 == 67108864

\* The spacing of the floats around x: 24 bits of significand.
float_ulp(x) ==
    IF x < 2 * F_0_25 THEN IF x < F_0_25 THEN 1 ELSE 2
    ELSE IF x < F_1_0 THEN 4
    ELSE IF x < 2 * F_1_0 THEN 8
    ELSE IF x < 4 * F_1_0 THEN 16
    ELSE IF x < 8 * F_1_0 THEN 32
    ELSE 64

\* x rounded to a float, to nearest and to even on a tie.
float_round(x) ==
    LET q == float_ulp(x)
        down == x - (x % q)
    IN  IF 2 * (x % q) < q THEN down
        ELSE IF 2 * (x % q) > q THEN down + q
        ELSE IF (down \div q) % 2 = 0 THEN down
        ELSE down + q

\* a + b in float arithmetic.
float_add(a, b) == float_round(a + b)

\* tm_score_entry_relevance: the table of patterns.
patterns ==
    << [pattern |-> "error", weight |-> F_0_3],
       [pattern |-> "exception", weight |-> F_0_4],
       [pattern |-> "failed", weight |-> F_0_3],
       [pattern |-> "failure", weight |-> F_0_3],
       [pattern |-> "timeout", weight |-> F_0_25],
       [pattern |-> "refused", weight |-> F_0_25],
       [pattern |-> "denied", weight |-> F_0_2],
       [pattern |-> "crash", weight |-> F_0_5],
       [pattern |-> "panic", weight |-> F_0_5],
       [pattern |-> "fatal", weight |-> F_0_5],
       [pattern |-> "critical", weight |-> F_0_4],
       [pattern |-> "segfault", weight |-> F_0_5],
       [pattern |-> "oom", weight |-> F_0_4],
       [pattern |-> "out of memory", weight |-> F_0_4],
       [pattern |-> "connection reset", weight |-> F_0_3],
       [pattern |-> "502", weight |-> F_0_35],
       [pattern |-> "503", weight |-> F_0_35],
       [pattern |-> "500", weight |-> F_0_3] >>

\* A pattern loop that stops at the first pattern found in the message.
RECURSIVE score_patterns_first_match(_, _, _)
score_patterns_first_match(lowered, j, score) ==
    IF j > Len(patterns) THEN score
    ELSE IF strstr(lowered, patterns[j].pattern)
    THEN float_add(score, patterns[j].weight)
    ELSE score_patterns_first_match(lowered, j + 1, score)

\* tm_score_entry_relevance: the loop over the patterns from index j on, for
\* the message lowered to small letters.
RECURSIVE score_patterns(_, _, _)
score_patterns(lowered, j, score) ==
    IF j > Len(patterns) THEN score
    ELSE score_patterns(lowered, j + 1,
             IF strstr(lowered, patterns[j].pattern)
             THEN float_add(score, patterns[j].weight) ELSE score)

\* A loop body that stores the total without the cap at 1.0.
score_entry_unclamped(e) ==
    LET base == IF e.is_error THEN float_add(0, F_0_4)
                ELSE IF severity_in(e.severity, {"WARN", "WARNING"})
                THEN float_add(0, F_0_15)
                ELSE 0
    IN  Only({[e EXCEPT !.relevance_score = score,
                        !.is_anomaly = IF score >= F_0_5 THEN TRUE ELSE @] :
              score \in {IF e.message = NULL THEN base
                         ELSE score_patterns(StrLower(Deref(e.message)), 1, base)}})

\* tm_score_entry_relevance: the body of its loop for the entry e.
score_entry(e) ==
    LET base == IF e.is_error THEN float_add(0, F_0_4)
                ELSE IF severity_in(e.severity, {"WARN", "WARNING"})
                THEN float_add(0, F_0_15)
                ELSE 0
    IN  Only({[e EXCEPT !.relevance_score = IF score > F_1_0 THEN F_1_0 ELSE score,
                        !.is_anomaly = IF score >= F_0_5 THEN TRUE ELSE @] :
              score \in {IF e.message = NULL THEN base
                         ELSE score_patterns(StrLower(Deref(e.message)), 1, base)}})

\* tm_score_entry_relevance(log) on the log itself.
tm_score_entry_relevance(log) ==
    [log EXCEPT !.entries = [i \in 1..Len(@) |-> score_entry(@[i])]]

-----------------------------------------------------------------------------
(* input_format.c: tm_unified_parse, one step at a time.  Its state u is the
   record [content, len, has_mode, has_trace, has_log, mode, trace, log,
   extracted, ret, pc]: the arguments (has_x tells whether the out-parameter
   x is a pointer that is not NULL), the caller's three out-variables, the
   local extracted, and the value returned. *)

TM_MODE_AUTO == "TM_MODE_AUTO"

\* tm_unified_parse up to the choice of the mode: the argument checks, the
\* reset of *trace and *log, and tm_detect_analysis_mode.
tm_unified_parse_call(u) ==
    IF u.content = NULL \/ u.len = 0 \/ ~u.has_mode \/ ~u.has_trace \/ ~u.has_log
    THEN [u EXCEPT !.ret = Ptr(TM_ERR_INVALID_ARG), !.pc = "unified_done"]
    ELSE Only({[u EXCEPT !.trace = NULL, !.log = NULL, !.mode = m,
                         !.pc = IF m = TM_MODE_STACK_TRACE THEN "unified_extract"
                                ELSE "unified_generic"] :
               m \in {tm_detect_analysis_mode(u.content, u.len)}})

\* tm_unified_parse: the call of tm_extract_stack_traces.
tm_unified_parse_extract(u) ==
    [u EXCEPT !.extracted = tm_extract_stack_traces(u.content, u.len, TM_IFMT_AUTO),
              !.pc = "unified_trace"]

\* The stack-trace branch leaving the mode as detected when no trace is
\* parsed, where the code sets it to TM_MODE_GENERIC_LOG.
tm_unified_parse_trace_keep_mode(u, before_found) ==
    IF u.extracted = NULL THEN [u EXCEPT !.pc = "unified_generic"]
    ELSE Only({IF t /= NULL
               THEN [u EXCEPT !.trace = t, !.extracted = NULL, !.ret = Ptr(TM_OK),
                              !.pc = "unified_done"]
               ELSE [u EXCEPT !.extracted = NULL, !.pc = "unified_generic"] :
               t \in {tm_parse_stack_trace(u.extracted, Len(Deref(u.extracted)),
                                           before_found)}})

\* The stack-trace branch returning TM_ERR_PARSE when no trace is parsed,
\* where the code goes on to the generic parsing.
tm_unified_parse_trace_no_fallback(u, before_found) ==
    IF u.extracted = NULL
    THEN [u EXCEPT !.ret = Ptr(TM_ERR_PARSE), !.pc = "unified_done"]
    ELSE Only({IF t /= NULL
               THEN [u EXCEPT !.trace = t, !.extracted = NULL, !.ret = Ptr(TM_OK),
                              !.pc = "unified_done"]
               ELSE [u EXCEPT !.extracted = NULL, !.ret = Ptr(TM_ERR_PARSE),
                              !.pc = "unified_done"] :
               t \in {tm_parse_stack_trace(u.extracted, Len(Deref(u.extracted)),
                                           before_found)}})

\* tm_unified_parse: the rest of the stack-trace branch: the parse of the
\* extracted text, the return when it gives a trace, the change of mode when
\* it does not.
tm_unified_parse_trace(u, before_found) ==
    IF u.extracted = NULL
    THEN [u EXCEPT !.mode = TM_MODE_GENERIC_LOG, !.pc = "unified_generic"]
    ELSE Only({IF t /= NULL
               THEN [u EXCEPT !.trace = t, !.extracted = NULL, !.ret = Ptr(TM_OK),
                              !.pc = "unified_done"]
               ELSE [u EXCEPT !.extracted = NULL, !.mode = TM_MODE_GENERIC_LOG,
                              !.pc = "unified_generic"] :
               t \in {tm_parse_stack_trace(u.extracted, Len(Deref(u.extracted)),
                                           before_found)}})

\* tm_unified_parse: the generic parsing and its check for entries.
tm_unified_parse_generic(u) ==
    Only({IF g = NULL \/ log_count(Deref(g)) = 0
          THEN [u EXCEPT !.log = NULL, !.ret = Ptr(TM_ERR_PARSE), !.pc = "unified_done"]
          ELSE [u EXCEPT !.log = g, !.pc = "unified_score"] :
          g \in {tm_parse_generic_log(u.content, u.len, TM_LOG_FMT_UNKNOWN)}})

\* tm_unified_parse: the scoring and the return.
tm_unified_parse_score(u) ==
    [u EXCEPT !.log = Ptr(tm_score_entry_relevance(Deref(u.log))),
              !.ret = Ptr(TM_OK), !.pc = "unified_done"]

-----------------------------------------------------------------------------
(* tm_unified_parse: inputs and state machine *)

\* Contents given to tm_unified_parse besides the generated traces and logs:
\* blank, plain, a panic line alone, whole traces of the three languages, and
\* NDJSON, JSON-array and CSV logs with and without a trace in them.
UnifiedTexts ==
    { "\n\n", "\r\n", "hello world\n", "panic: boom\n", "\n\npanic: boom\n",
      "panic: boom\nmain.run(0x1)\n\t/app/a.go:12 +0x1f\n",
      "Traceback (most recent call last):\n  File \"/app/m.py\", line 4, in f\nKeyError: 'k'\n",
      "TypeError: x is undefined\n    at f (/app/u.js:4:2)\n",
      "ERROR: crash failed\nWARN: slow\n",
      "WARN: 503 from upstream\n",
      "timestamp,severity,message\nt1,ERROR,\"panic: boom\"\n",
      "timestamp,severity,message\nt1,ERROR,\"panic: boom\nmain.run(0x1)\n\t/app/a.go:12 +0x1f\"\n",
      "timestamp\tseverity\ttext\nt1\tERROR\tgoroutine 1 [running]:\n",
      "timestamp,severity,message\nt1,INFO,started\n" }
    \cup {d.text : d \in JsonDocs} \cup {d.text \o "\n" : d \in JsonDocs}

\* The calls of tm_unified_parse: every content whole and cut short by len,
\* and the calls its argument check rejects.
UnifiedCalls ==
    UNION {{[content |-> Ptr(t), len |-> n, has_mode |-> TRUE, has_trace |-> TRUE,
             has_log |-> TRUE] : n \in {Len(t), IF Len(t) > 2 THEN 2 ELSE Len(t)}} :
           t \in (UnifiedTexts \cup LogTexts \cup GeneratedTexts \cup Fixtures) \ {""}}
    \cup {[content |-> c, len |-> n, has_mode |-> m, has_trace |-> t, has_log |-> l] :
             c \in {NULL, Ptr("panic: boom\n")}, n \in {0, 12},
             m \in BOOLEAN, t \in BOOLEAN, l \in BOOLEAN}

UnifiedInit ==
    /\ \E c \in UnifiedCalls :
           unified = [content |-> c.content, len |-> c.len, has_mode |-> c.has_mode,
                      has_trace |-> c.has_trace, has_log |-> c.has_log,
                      mode |-> TM_MODE_AUTO, trace |-> NULL, log |-> NULL,
                      extracted |-> NULL, ret |-> NULL, pc |-> "unified_call"]
    /\ input = NULL
    /\ len = 0
    /\ pc = "idle"
    /\ buf = ""
    /\ cursor = 0
    /\ pending_function = NULL
    /\ trace = tm_trace_new
    /\ result = NULL
    /\ scoring = NULL
    /\ detect = NULL
    /\ graph = NULL
    /\ extract = NULL
    /\ logfmt = NULL
    /\ ast = NULL
    /\ session = NULL
    /\ csv = NULL
    /\ glog = NULL

UnifiedCall ==
    /\ unified.pc = "unified_call"
    /\ unified' = tm_unified_parse_call(unified)
    /\ UNCHANGED <<traceVars, csv, glog, moreVars>>

UnifiedExtract ==
    /\ unified.pc = "unified_extract"
    /\ unified' = tm_unified_parse_extract(unified)
    /\ UNCHANGED <<traceVars, csv, glog, moreVars>>

UnifiedParseTrace ==
    /\ unified.pc = "unified_trace"
    /\ \E before_found \in BOOLEAN :
           unified' = tm_unified_parse_trace(unified, before_found)
    /\ UNCHANGED <<traceVars, csv, glog, moreVars>>

UnifiedGeneric ==
    /\ unified.pc = "unified_generic"
    /\ unified' = tm_unified_parse_generic(unified)
    /\ UNCHANGED <<traceVars, csv, glog, moreVars>>

UnifiedScore ==
    /\ unified.pc = "unified_score"
    /\ unified' = tm_unified_parse_score(unified)
    /\ UNCHANGED <<traceVars, csv, glog, moreVars>>

UnifiedNext ==
    \/ UnifiedCall
    \/ UnifiedExtract
    \/ UnifiedParseTrace
    \/ UnifiedGeneric
    \/ UnifiedScore

SpecUnified == UnifiedInit /\ [][UnifiedNext]_vars

-----------------------------------------------------------------------------
(* tm_unified_parse: claims *)

\* tm_unified_parse has returned, its arguments having passed its check.
UnifiedReturned ==
    /\ unified.pc = "unified_done"
    /\ unified.content /= NULL /\ unified.len /= 0
    /\ unified.has_mode /\ unified.has_trace /\ unified.has_log

\* C4: whenever tm_unified_parse returns TM_OK, exactly one of *trace and
\* *log is not NULL and *mode names it: TM_MODE_STACK_TRACE exactly when
\* *trace is set, TM_MODE_GENERIC_LOG exactly when *log is set, on the direct
\* path and on the fallback path alike.
C4_ExactlyOneResultTaggedByMode ==
    (unified.pc = "unified_done" /\ unified.ret = Ptr(TM_OK)) =>
        /\ (unified.trace /= NULL) /= (unified.log /= NULL)
        /\ (unified.mode = TM_MODE_STACK_TRACE) <=> (unified.trace /= NULL)
        /\ (unified.mode = TM_MODE_GENERIC_LOG) <=> (unified.log /= NULL)

\* C4 has its case on the fallback path: detection chose the stack-trace
\* mode, no trace came of it, and TM_OK is returned with the log.
C4_Witness ==
    /\ UnifiedReturned
    /\ unified.ret = Ptr(TM_OK)
    /\ tm_detect_analysis_mode(unified.content, unified.len) = TM_MODE_STACK_TRACE
    /\ unified.trace = NULL
    /\ unified.log /= NULL
    /\ unified.mode = TM_MODE_GENERIC_LOG

\* C7: when tm_unified_parse chose the stack-trace mode and got no trace, it
\* has switched *mode to TM_MODE_GENERIC_LOG and parsed the original content
\* as a generic log: it returns TM_OK with that log, scored, unless the log
\* has no entry; and it returns TM_ERR_PARSE only when the generic parsing of
\* the content gives no entry.
C7_FallbackToGenericLog ==
    UnifiedReturned =>
        LET g == tm_parse_generic_log(unified.content, unified.len, TM_LOG_FMT_UNKNOWN)
            empty == g = NULL \/ log_count(Deref(g)) = 0
        IN  /\ ( /\ tm_detect_analysis_mode(unified.content, unified.len)
                        = TM_MODE_STACK_TRACE
                 /\ unified.trace = NULL )
                   => /\ unified.mode = TM_MODE_GENERIC_LOG
                      /\ IF empty
                         THEN unified.ret = Ptr(TM_ERR_PARSE) /\ unified.log = NULL
                         ELSE /\ unified.ret = Ptr(TM_OK)
                              /\ unified.log = Ptr(tm_score_entry_relevance(Deref(g)))
            /\ unified.ret = Ptr(TM_ERR_PARSE) => empty
            /\ unified.ret \in {Ptr(TM_OK), Ptr(TM_ERR_PARSE)}

\* C7 has its case: a structured log whose extracted text names a panic but
\* holds no frame, parsed as a generic log and scored to an anomaly.
C7_Witness ==
    /\ UnifiedReturned
    /\ tm_detect_analysis_mode(unified.content, unified.len) = TM_MODE_STACK_TRACE
    /\ tm_detect_input_format(unified.content, unified.len) /= TM_IFMT_RAW
    /\ unified.trace = NULL
    /\ unified.ret = Ptr(TM_OK)
    /\ unified.mode = TM_MODE_GENERIC_LOG
    /\ \E i \in 1..log_count(Deref(unified.log)) :
           /\ Deref(unified.log).entries[i].relevance_score >= F_0_5
           /\ Deref(unified.log).entries[i].is_anomaly

-----------------------------------------------------------------------------
(* input_format.c: tm_extract_errors *)

\* An errors-only loop body: it keeps the entries with is_error alone.
extract_errors_step_errors_only(filtered, e) ==
    IF e.is_error
    THEN Only({IF log_count(added) > 0
               THEN [added EXCEPT
                        !.entries[log_count(added)].relevance_score = e.relevance_score,
                        !.entries[log_count(added)].is_error = e.is_error,
                        !.entries[log_count(added)].is_anomaly = e.is_anomaly]
               ELSE added :
               added \in {tm_generic_log_add_entry(filtered, e.timestamp, e.severity,
                              e.message, e.source, e.raw_line, e.line_number)}})
    ELSE filtered

\* tm_extract_errors: the body of its loop for the entry e of the log; the
\* copied score and flags go to the last entry of filtered, whether or not
\* tm_generic_log_add_entry added one.
extract_errors_step(filtered, e) ==
    IF e.is_error \/ e.is_anomaly
    THEN Only({IF log_count(added) > 0
               THEN [added EXCEPT
                        !.entries[log_count(added)].relevance_score = e.relevance_score,
                        !.entries[log_count(added)].is_error = e.is_error,
                        !.entries[log_count(added)].is_anomaly = e.is_anomaly]
               ELSE added :
               added \in {tm_generic_log_add_entry(filtered, e.timestamp, e.severity,
                              e.message, e.source, e.raw_line, e.line_number)}})
    ELSE filtered

\* tm_extract_errors: its loop from entry i of the log on.
RECURSIVE extract_errors_from(_, _, _)
extract_errors_from(log, i, filtered) ==
    IF i > log_count(log) THEN filtered
    ELSE extract_errors_from(log, i + 1, extract_errors_step(filtered, log.entries[i]))

\* tm_extract_errors(log), log being NULL or <<log>>.
tm_extract_errors(log) ==
    IF log = NULL THEN NULL
    ELSE Ptr(extract_errors_from(Deref(log), 1,
                 [tm_generic_log_new EXCEPT
                     !.detected_format = Deref(log).detected_format,
                     !.format_description = Deref(log).format_description]))

-----------------------------------------------------------------------------
(* tm_score_entry_relevance and tm_extract_errors: inputs and state machine.
   The state is the record [log, filtered, pc]: the caller's log (NULL or
   <<log>>), what tm_extract_errors returned, and the position: "score_new"
   before the scores are computed, "scored" after, "extracted" and
   "extracted_scored" after tm_extract_errors on the one and on the other. *)

\* Most entries of a log given to the scoring.
MaxScoreEntries == 2

\* Severities of the entries: none, an error, a warning, and neither.
ScoreSeverities == {NULL, Ptr("ERROR"), Ptr("warn"), Ptr("INFO")}

\* Messages of the entries: without a pattern, with one, with several, and
\* with patterns whose weights pass 1.0.
ScoreMessages ==
    { "", "ok", "Error", "connection refused", "panic crash fatal",
      "502 Timeout", "request DENIED", "critical failure exception" }

\* (severity, message) of the entries after the first: with neither flag,
\* an error that is no anomaly, and an anomaly that is no error.
ScoreFollowers ==
    { <<Ptr("INFO"), "ok">>, <<Ptr("ERROR"), "ok">>, <<NULL, "panic crash fatal">> }

\* The logs tm_generic_log_add_entry builds from n entries: the first of
\* every severity and message, the others from ScoreFollowers.
RECURSIVE ScoreLogs(_)
ScoreLogs(n) ==
    IF n = 0 THEN {tm_generic_log_new}
    ELSE IF n = 1
    THEN {tm_generic_log_add_entry(tm_generic_log_new, NULL, s, Ptr(m), NULL, Ptr(m), 1) :
          s \in ScoreSeverities, m \in ScoreMessages}
    ELSE {tm_generic_log_add_entry(log, NULL, f[1], Ptr(f[2]), NULL, Ptr(f[2]), n) :
          log \in ScoreLogs(n - 1), f \in ScoreFollowers}

ScoreInit ==
    /\ \E log \in {NULL} \cup UNION {{Ptr(l) : l \in ScoreLogs(n)} : n \in 0..MaxScoreEntries} :
           scoring = [log |-> log, filtered |-> NULL, pc |-> "score_new"]
    /\ input = NULL
    /\ len = 0
    /\ pc = "idle"
    /\ buf = ""
    /\ cursor = 0
    /\ pending_function = NULL
    /\ trace = tm_trace_new
    /\ result = NULL
    /\ csv = NULL
    /\ glog = NULL
    /\ unified = NULL
    /\ detect = NULL
    /\ graph = NULL
    /\ extract = NULL
    /\ logfmt = NULL
    /\ ast = NULL
    /\ session = NULL

\* tm_score_entry_relevance(log): nothing for a NULL log.
ScoreRelevance ==
    /\ scoring.pc = "score_new"
    /\ scoring' = [scoring EXCEPT
                      !.log = IF @ = NULL THEN NULL
                              ELSE Ptr(tm_score_entry_relevance(Deref(@))),
                      !.pc = "scored"]
    /\ UNCHANGED <<traceVars, csv, glog, unified, detect, graph, lateVars>>

\* tm_extract_errors(log), before or after the scores are computed.
ExtractErrors ==
    /\ scoring.pc \in {"score_new", "scored"}
    /\ scoring' = [scoring EXCEPT
                      !.filtered = tm_extract_errors(scoring.log),
                      !.pc = IF @ = "scored" THEN "extracted_scored" ELSE "extracted"]
    /\ UNCHANGED <<traceVars, csv, glog, unified, detect, graph, lateVars>>

ScoreNext ==
    \/ ScoreRelevance
    \/ ExtractErrors

SpecScore == ScoreInit /\ [][ScoreNext]_vars

-----------------------------------------------------------------------------
(* tm_score_entry_relevance and tm_extract_errors: claims *)

\* The scores of the log have been computed.
Scored == scoring.pc \in {"scored", "extracted_scored"} /\ scoring.log /= NULL

\* The score tm_score_entry_relevance gives the entry e once text is put at
\* the end of its message.
ScoreWithAppended(e, text) ==
    score_entry([e EXCEPT !.message = Ptr(Deref(@) \o text)]).relevance_score

\* The entry is one the errors-only view keeps.
IsErrorOrAnomaly(e) == e.is_error \/ e.is_anomaly

\* What the claims compare of an entry.
EntryView(e) ==
    [message |-> e.message, severity |-> e.severity, line_number |-> e.line_number,
     relevance_score |-> e.relevance_score, is_error |-> e.is_error,
     is_anomaly |-> e.is_anomaly]

EntryViews(entries) == [i \in 1..Len(entries) |-> EntryView(entries[i])]

\* C11: the scoring is monotonic: for every scored entry, whatever its
\* severity and message m, the score of m with a listed keyword put at its
\* end (directly or after a blank) is never lower than the score of m.
C11_ScoreMonotonic ==
    Scored =>
        \A i \in 1..log_count(Deref(scoring.log)), j \in 1..Len(patterns) :
            LET e == Deref(scoring.log).entries[i]
            IN  /\ ScoreWithAppended(e, patterns[j].pattern) >= e.relevance_score
                /\ ScoreWithAppended(e, " " \o patterns[j].pattern) >= e.relevance_score

\* C11 has its cases: one entry whose score a new keyword raises, and one
\* entry at the cap, whose score stays 1.0.
C11_Witness ==
    /\ Scored
    /\ \E i \in 1..log_count(Deref(scoring.log)), j \in 1..Len(patterns) :
           LET e == Deref(scoring.log).entries[i]
           IN  /\ e.relevance_score > 0
               /\ ScoreWithAppended(e, patterns[j].pattern) > e.relevance_score
    /\ \E i \in 1..log_count(Deref(scoring.log)), j \in 1..Len(patterns) :
           LET e == Deref(scoring.log).entries[i]
           IN  /\ e.relevance_score = F_1_0
               /\ ~strstr(StrLower(Deref(e.message)), patterns[j].pattern)
               /\ ScoreWithAppended(e, patterns[j].pattern) = F_1_0

\* C16: after tm_score_entry_relevance every entry's relevance_score lies in
\* [0.0, 1.0], and the entry is flagged is_anomaly exactly when the score is
\* at least 0.5.
C16_ScoreInUnitRange ==
    Scored =>
        \A i \in 1..log_count(Deref(scoring.log)) :
            LET e == Deref(scoring.log).entries[i]
            IN  /\ 0 <= e.relevance_score
                /\ e.relevance_score <= F_1_0
                /\ e.is_anomaly <=> (e.relevance_score >= F_0_5)

\* C16 has its cases: an error entry whose weights add up to more than 1.0,
\* scored 1.0 and flagged, beside an entry below 0.5 that is not flagged.
C16_Witness ==
    /\ scoring.pc = "scored"
    /\ scoring.log /= NULL
    /\ \E i, k \in 1..log_count(Deref(scoring.log)) :
           /\ Deref(scoring.log).entries[i].is_error
           /\ Deref(Deref(scoring.log).entries[i].message) = "panic crash fatal"
           /\ Deref(scoring.log).entries[i].relevance_score = F_1_0
           /\ Deref(scoring.log).entries[i].is_anomaly
           /\ Deref(scoring.log).entries[k].relevance_score > 0
           /\ Deref(scoring.log).entries[k].relevance_score < F_0_5
           /\ ~Deref(scoring.log).entries[k].is_anomaly

-----------------------------------------------------------------------------
(* tm_detect_input_format: inputs and state machine.  The state is the record
   [memory, content, len, result, pc]: the NUL-terminated bytes that stand in
   memory from the address of the content on, the argument content (NULL or
   a pointer to memory), the argument len, which may be less than the bytes
   in memory, and the format returned (NULL before the return). *)

\* First lines: delimiters without a header word, with one, too few
\* delimiters, JSON openers behind white space, and plain text.
DetectFirstLines ==
    { "a,b,c", "a\tb\tc", "x\ty", "x,y", "time,Severity,msg", "Timestamp\tx",
      "a,b,MESSAGE", "t\ta,b,textpayload", " \t[1,2]", " {\"a\":1}", "plain", "  " }

\* What follows the first line in memory.
DetectRests == { "", "\n", "\nthe message\n", "\n1,2,3\n", "\nseverity" }

DetectMemories == {first \o rest : first \in DetectFirstLines, rest \in DetectRests}

DetectInit ==
    /\ \E memory \in DetectMemories : \E n \in 0..Len(memory), null \in BOOLEAN :
           /\ null => n \in {0, Len(memory)}
           /\ detect = [memory |-> memory,
                        content |-> IF null THEN NULL ELSE Ptr(memory),
                        len |-> n, result |-> NULL, pc |-> "detect_call"]
    /\ input = NULL
    /\ len = 0
    /\ pc = "idle"
    /\ buf = ""
    /\ cursor = 0
    /\ pending_function = NULL
    /\ trace = tm_trace_new
    /\ result = NULL
    /\ csv = NULL
    /\ glog = NULL
    /\ unified = NULL
    /\ scoring = NULL
    /\ graph = NULL
    /\ extract = NULL
    /\ logfmt = NULL
    /\ ast = NULL
    /\ session = NULL

\* tm_detect_input_format(content, len)
DetectInputFormat ==
    /\ detect.pc = "detect_call"
    /\ detect' = [detect EXCEPT
                     !.result = Ptr(tm_detect_input_format(detect.content, detect.len)),
                     !.pc = "detect_done"]
    /\ UNCHANGED <<traceVars, csv, glog, unified, scoring, graph, lateVars>>

DetectNext == DetectInputFormat

SpecDetect == DetectInit /\ [][DetectNext]_vars

-----------------------------------------------------------------------------
(* tm_detect_input_format: claims *)

\* tm_detect_input_format has returned for a content that is not NULL.
Detected == detect.pc = "detect_done" /\ detect.content /= NULL

\* The first line the function looks at: from the first byte that is not
\* white space up to the newline, within the len bytes ("" when there is no
\* such byte or no newline).
DetectFirstLine ==
    LET p == skip_whitespace(detect.memory, 0, detect.len)
        newline == IF p >= detect.len THEN -1
                   ELSE memchr(detect.memory, p, "\n", detect.len - p)
    IN  IF newline = -1 THEN "" ELSE Slice(detect.memory, p, newline)

\* The line holds one of the four header words, in any case of letters.
HasHeaderWord(line) ==
    \E word \in {"timestamp", "severity", "message", "textPayload"} :
        tm_strcasestr(line, word)

\* C12: tm_detect_input_format(content, len) is a function of the len bytes
\* given: every memory that agrees with this one on its first len bytes,
\* whatever follows them, gets the same format.
C12_DependsOnLenBytesOnly ==
    Detected =>
        \A other \in DetectMemories \cup {Slice(detect.memory, 0, detect.len)} :
            ( /\ Len(other) >= detect.len
              /\ Slice(other, 0, detect.len) = Slice(detect.memory, 0, detect.len) )
                => Ptr(tm_detect_input_format(Ptr(other), detect.len)) = detect.result

\* C20: tm_detect_input_format returns TSV or CSV only when the first line
\* itself meets the delimiter rule and holds a header word: a first line
\* with commas or tabs and no header word gives RAW, whatever the later
\* lines hold.
C20_HeaderWordInFirstLine ==
    Detected =>
        LET line == DetectFirstLine
            tabs == CountChar(line, 0, Len(line) - 1, "\t")
            commas == CountChar(line, 0, Len(line) - 1, ",")
        IN  /\ detect.result = Ptr(TM_IFMT_TSV)
                => (tabs >= 2 \/ (tabs > 0 /\ tabs >= commas)) /\ HasHeaderWord(line)
            /\ detect.result = Ptr(TM_IFMT_CSV)
                => commas >= 2 /\ HasHeaderWord(line)
            /\ ( /\ tabs + commas > 0
                 /\ CharAt(line, 0) \notin {"[", "{"}
                 /\ ~HasHeaderWord(line) )
                   => detect.result = Ptr(TM_IFMT_RAW)

-----------------------------------------------------------------------------
(* ast.c, built with HAVE_TREE_SITTER: the call graph builder.  A node of
   the graph is named by its place in graph->nodes, 1 for the first: every
   node is a new allocation of tm_call_node_new, so two nodes are two
   pointers.  callers and callees are sequences of such places.  What
   Tree-sitter finds in the source files of the repository is given: Repo
   maps the path of every readable source file to its function definitions
   in the order tm_extract_functions returns them. *)

\* builder->repo_path
repo_path == "/r"

\* The source files and their functions: g is nested in f of a.py, and b.py
\* holds two functions of one name.
Repo ==
    ("/r/a.py" :> << [name |-> "f", start_line |-> 1, end_line |-> 10],
                     [name |-> "g", start_line |-> 3, end_line |-> 5],
                     [name |-> "h", start_line |-> 12, end_line |-> 20] >>)
    @@ ("/r/b.py" :> << [name |-> "f", start_line |-> 1, end_line |-> 4],
                        [name |-> "f", start_line |-> 6, end_line |-> 9] >>)

\* tm_find_function(file, name, &func): func, NULL when no function of the
\* file has the name; funcs are the functions of the file.
tm_find_function(funcs, name) ==
    LET hits == {i \in 1..Len(funcs) : funcs[i].name = name}
    IN  IF hits = {} THEN NULL ELSE Ptr(funcs[Least(hits)])

\* tm_find_function_at_line(file, line, &func): the first of the functions
\* of least span among those that contain the line, NULL when none does.
tm_find_function_at_line(funcs, line) ==
    LET around == {i \in 1..Len(funcs) :
                      line >= funcs[i].start_line /\ line <= funcs[i].end_line}
        span(i) == funcs[i].end_line - funcs[i].start_line
        best == {i \in around : \A j \in around : span(i) <= span(j)}
    IN  IF around = {} THEN NULL ELSE Ptr(funcs[Least(best)])

\* tm_graph_builder_build: the function of a frame whose file has the
\* functions funcs; a frame without a function name has none.
graph_find_function(frame, funcs) ==
    IF frame.function = NULL THEN NULL
    ELSE IF tm_find_function(funcs, Deref(frame.function)) /= NULL
    THEN tm_find_function(funcs, Deref(frame.function))
    ELSE tm_find_function_at_line(funcs, frame.line)

\* tm_graph_builder_build: full_path of a frame whose file is not NULL.
graph_full_path(frame) ==
    IF CharAt(Deref(frame.file), 0) = "/" THEN Deref(frame.file)
    ELSE repo_path \o "/" \o Deref(frame.file)

\* tm_graph_builder_get_file(builder, path, &file): the cache of the builder
\* afterwards, files being the paths it holds; the call fails, and the cache
\* stays, for a path that cannot be read and parsed.
tm_graph_builder_get_file(files, path) ==
    IF \E k \in 1..Len(files) : files[k] = path THEN files
    ELSE IF path \in DOMAIN Repo THEN Append(files, path)
    ELSE files

\* tm_call_node_new(name, file, start_line, end_line); frame is the index of
\* the frame the node is made for, which the C node does not hold.
tm_call_node_new(name, file, start_line, end_line, frame) ==
    [name |-> name, file |-> file, start_line |-> start_line, end_line |-> end_line,
     callers |-> <<>>, callees |-> <<>>, complexity |-> 0, frame |-> frame]

\* tm_call_node_add_caller(nodes[node], nodes[caller]) on the nodes of the graph.
tm_call_node_add_caller(nodes, node, caller) ==
    IF \E k \in 1..Len(nodes[node].callers) : nodes[node].callers[k] = caller
    THEN nodes
    ELSE [nodes EXCEPT ![node].callers = Append(@, caller)]

\* tm_call_node_add_callee(nodes[node], nodes[callee]) on the nodes of the graph.
tm_call_node_add_callee(nodes, node, callee) ==
    IF \E k \in 1..Len(nodes[node].callees) : nodes[node].callees[k] = callee
    THEN nodes
    ELSE [nodes EXCEPT ![node].callees = Append(@, callee)]

-----------------------------------------------------------------------------
(* tm_graph_builder_build, one step at a time.  Its state g is the record
   [has_builder, has_trace, has_result, include_stdlib, frames, i, files,
   nodes, node_capacity, edge_count, entry_point, result_set, ret, pc]: the
   arguments (has_x tells whether the pointer x is not NULL), the loop index,
   the builder's cache, the fields of the graph (nodes is graph->nodes up to
   node_count), whether *result points to the graph, and the value returned. *)

\* tm_graph_builder_build from its entry to its loop.
tm_graph_builder_build_call(g) ==
    IF ~g.has_builder \/ ~g.has_trace \/ ~g.has_result
    THEN [g EXCEPT !.ret = Ptr(TM_ERR_INVALID_ARG), !.pc = "graph_done"]
    ELSE [g EXCEPT !.result_set = FALSE, !.nodes = <<>>, !.node_capacity = 0,
                   !.edge_count = 0, !.entry_point = NULL, !.i = 0,
                   !.pc = "graph_frames"]

\* The node just made is put into graph->nodes.
graph_add_node(g, node) ==
    [g EXCEPT !.node_capacity = IF Len(g.nodes) >= @ THEN (IF @ = 0 THEN 16 ELSE 2 * @)
                                ELSE @,
              !.nodes = Append(@, node)]

\* An entry point that follows the node added last.
graph_entry_point_latest(g) == [g EXCEPT !.entry_point = Ptr(Len(g.nodes))]

\* The entry point after the node of frame g.i was added.
graph_entry_point(g) ==
    IF g.i = 0 \/ g.entry_point = NULL
    THEN [g EXCEPT !.entry_point = Ptr(Len(g.nodes))]
    ELSE g

\* A link from the first node of the graph instead of the previous one.
graph_link_previous_from_first(g) ==
    IF Len(g.nodes) >= 2
    THEN [g EXCEPT !.nodes = tm_call_node_add_caller(
                                 tm_call_node_add_callee(@, 1, Len(g.nodes)),
                                 Len(g.nodes), 1)]
    ELSE g

\* The node added last is linked to the node before it.
graph_link_previous(g) ==
    IF Len(g.nodes) >= 2
    THEN [g EXCEPT !.nodes = tm_call_node_add_caller(
                                 tm_call_node_add_callee(@, Len(g.nodes) - 1, Len(g.nodes)),
                                 Len(g.nodes), Len(g.nodes) - 1)]
    ELSE g

\* Whether the loop goes on to the next frame before it asks for the file.
graph_frame_skipped(g, frame) ==
    \/ ~g.include_stdlib /\ frame.is_stdlib
    \/ frame.is_third_party
    \/ frame.file = NULL

\* tm_graph_builder_build: the body of its loop for frame g.i.
tm_graph_builder_build_frame(g) ==
    LET frame == g.frames[g.i + 1]
        next == [g EXCEPT !.i = @ + 1]
    IN  IF graph_frame_skipped(g, frame) THEN next
        ELSE IF graph_full_path(frame) \notin DOMAIN Repo THEN next
        ELSE LET cached == [g EXCEPT !.files = tm_graph_builder_get_file(
                                                   @, graph_full_path(frame))]
                 func == graph_find_function(frame, Repo[graph_full_path(frame)])
             IN  IF func = NULL THEN [cached EXCEPT !.i = @ + 1]
                 ELSE [graph_link_previous(graph_entry_point(graph_add_node(cached,
                           tm_call_node_new(Deref(func).name, frame.file,
                               Deref(func).start_line, Deref(func).end_line, g.i))))
                       EXCEPT !.i = @ + 1]

\* tm_graph_builder_build after its loop.
tm_graph_builder_build_return(g) ==
    [g EXCEPT !.result_set = TRUE, !.ret = Ptr(TM_OK), !.pc = "graph_done"]

-----------------------------------------------------------------------------
(* tm_graph_builder_build: inputs and state machine *)

\* Most frames of a trace given to the builder.
MaxFrames == 3

\* The frames: found by name, found by line (the innermost function), found
\* by neither, without a function name, with a path relative to the
\* repository, of an unreadable file, of the standard library, of a
\* third party, and without a file.
GraphFrames ==
    LET fr(function, file, line, is_stdlib, is_third_party) ==
            [function |-> function, file |-> file, line |-> line,
             is_stdlib |-> is_stdlib, is_third_party |-> is_third_party]
    IN  { fr(Ptr("f"), Ptr("/r/a.py"), 4, FALSE, FALSE),
          fr(Ptr("zz"), Ptr("/r/a.py"), 4, FALSE, FALSE),
          fr(Ptr("zz"), Ptr("/r/a.py"), 30, FALSE, FALSE),
          fr(NULL, Ptr("/r/a.py"), 4, FALSE, FALSE),
          fr(Ptr("f"), Ptr("b.py"), 7, FALSE, FALSE),
          fr(Ptr("f"), Ptr("/r/missing.py"), 2, FALSE, FALSE),
          fr(Ptr("h"), Ptr("/r/a.py"), 13, TRUE, FALSE),
          fr(Ptr("f"), Ptr("/r/a.py"), 4, FALSE, TRUE),
          fr(Ptr("f"), NULL, 4, FALSE, FALSE) }

\* The traces of n frames.
RECURSIVE GraphTraces(_)
GraphTraces(n) ==
    IF n = 0 THEN {<<>>}
    ELSE {Append(t, f) : t \in GraphTraces(n - 1), f \in GraphFrames}

GraphInit ==
    /\ \E n \in 0..MaxFrames, stdlib \in BOOLEAN, b \in BOOLEAN, t \in BOOLEAN,
          r \in BOOLEAN :
           \E frames \in GraphTraces(n) :
               /\ ~(b /\ t /\ r) => n = 0 /\ ~stdlib
               /\ graph = [has_builder |-> b, has_trace |-> t, has_result |-> r,
                           include_stdlib |-> stdlib, frames |-> frames, i |-> 0,
                           files |-> <<>>, nodes |-> <<>>, node_capacity |-> 0,
                           edge_count |-> 0, entry_point |-> NULL,
                           result_set |-> FALSE, ret |-> NULL, pc |-> "graph_call"]
    /\ input = NULL
    /\ len = 0
    /\ pc = "idle"
    /\ buf = ""
    /\ cursor = 0
    /\ pending_function = NULL
    /\ trace = tm_trace_new
    /\ result = NULL
    /\ csv = NULL
    /\ glog = NULL
    /\ unified = NULL
    /\ scoring = NULL
    /\ detect = NULL
    /\ extract = NULL
    /\ logfmt = NULL
    /\ ast = NULL
    /\ session = NULL

GraphCall ==
    /\ graph.pc = "graph_call"
    /\ graph' = tm_graph_builder_build_call(graph)
    /\ UNCHANGED <<traceVars, csv, glog, unified, scoring, detect, lateVars>>

GraphFrame ==
    /\ graph.pc = "graph_frames"
    /\ graph.i < Len(graph.frames)
    /\ graph' = tm_graph_builder_build_frame(graph)
    /\ UNCHANGED <<traceVars, csv, glog, unified, scoring, detect, lateVars>>

GraphReturn ==
    /\ graph.pc = "graph_frames"
    /\ graph.i >= Len(graph.frames)
    /\ graph' = tm_graph_builder_build_return(graph)
    /\ UNCHANGED <<traceVars, csv, glog, unified, scoring, detect, lateVars>>

GraphNext ==
    \/ GraphCall
    \/ GraphFrame
    \/ GraphReturn

SpecGraph == GraphInit /\ [][GraphNext]_vars

-----------------------------------------------------------------------------
(* tm_graph_builder_build: claims *)

\* tm_graph_builder_build has returned the graph.
GraphBuilt == graph.pc = "graph_done" /\ graph.ret = Ptr(TM_OK)

\* The frame resolves to a function: the loop does not skip it, its file
\* can be read and a function is found for it.
FrameResolves(frame) ==
    /\ ~graph_frame_skipped(graph, frame)
    /\ graph_full_path(frame) \in DOMAIN Repo
    /\ graph_find_function(frame, Repo[graph_full_path(frame)]) /= NULL

\* The indices, from 0, of the frames of the trace that resolve.
ResolvedFrames == {i \in 0..(Len(graph.frames) - 1) : FrameResolves(graph.frames[i + 1])}

\* The members of a sequence of nodes.
NodeSet(seq) == {seq[k] : k \in 1..Len(seq)}

\* The number of caller->callee edges linked between the nodes.
RECURSIVE CalleeLinks(_, _)
CalleeLinks(nodes, k) ==
    IF k > Len(nodes) THEN 0 ELSE Len(nodes[k].callees) + CalleeLinks(nodes, k + 1)

\* C13: after tm_graph_builder_build the graph is a linear chain in the
\* order of the resolved frames: every node but the first has exactly one
\* caller, the node before it, and that node has exactly one callee, the
\* node after it; a is among b's callers exactly when b is among a's
\* callees, and there is no other edge.
C13_LinearChain ==
    GraphBuilt =>
        LET nodes == graph.nodes
            n == Len(nodes)
        IN  /\ n = Cardinality(ResolvedFrames)
            /\ \A k \in 1..n : nodes[k].frame \in ResolvedFrames
            /\ \A k \in 2..n :
                   /\ nodes[k - 1].frame < nodes[k].frame
                   /\ nodes[k].callers = <<k - 1>>
                   /\ nodes[k - 1].callees = <<k>>
            /\ n >= 1 => nodes[1].callers = <<>> /\ nodes[n].callees = <<>>
            /\ \A a \in 1..n, b \in 1..n :
                   (a \in NodeSet(nodes[b].callers)) <=> (b \in NodeSet(nodes[a].callees))

\* C13 has its case: three frames resolved, two of them to one function of
\* one file, give three nodes.
C13_Witness ==
    /\ GraphBuilt
    /\ Len(graph.nodes) = 3
    /\ graph.nodes[1].name = graph.nodes[2].name
    /\ graph.nodes[1].file = graph.nodes[2].file
    /\ graph.nodes[3].name /= graph.nodes[1].name

\* C14: tm_graph_builder_build returns TM_OK with entry_point the node of
\* the first frame, in frame order, that resolves to a function, and with
\* zero nodes and entry_point NULL when no frame resolves; entry_point, once
\* set, is never changed.
C14_EntryPointFirstResolved ==
    /\ [](( /\ graph.pc = "graph_done"
            /\ graph.has_builder /\ graph.has_trace /\ graph.has_result )
          => /\ graph.ret = Ptr(TM_OK)
             /\ graph.result_set
             /\ IF ResolvedFrames = {}
                THEN graph.nodes = <<>> /\ graph.entry_point = NULL
                ELSE /\ graph.entry_point /= NULL
                     /\ graph.nodes[Deref(graph.entry_point)].frame = Least(ResolvedFrames))
    /\ [][graph.entry_point /= NULL => graph'.entry_point = graph.entry_point]_vars

\* C14 has its case: the first frame does not resolve, two later frames do,
\* and the entry point is the node of the earlier of the two.
C14_Witness ==
    /\ GraphBuilt
    /\ Len(graph.nodes) = 2
    /\ 0 \notin ResolvedFrames
    /\ graph.entry_point = Ptr(1)
    /\ graph.nodes[1].frame = 1

\* C15: the graph tm_graph_builder_build returns tracks its edge count:
\* edge_count is the number of caller->callee edges linked between its
\* nodes, node_count - 1 for a chain of node_count >= 1 nodes.
C15_EdgeCountTracksLinks ==
    GraphBuilt =>
        /\ graph.edge_count = CalleeLinks(graph.nodes, 1)
        /\ Len(graph.nodes) >= 1 => graph.edge_count = Len(graph.nodes) - 1

-----------------------------------------------------------------------------
(* Claims on the order in which the Go and Python parsers read the lines *)

\* The frames a two-state scan of the lines emits, pending being the
\* function seen and not yet paired (NULL for none): a function line sets
\* pending, a location line with a pending function emits a frame and
\* clears pending, and every other line changes nothing.
RECURSIVE GoTwoStateScan(_, _)
GoTwoStateScan(lines, pending) ==
    IF lines = <<>> THEN <<>>
    ELSE LET line == Head(lines)
             mf == go_func_at(line, 0)
             ml == go_loc_at(line, 0)
         IN  IF mf.ok
             THEN GoTwoStateScan(Tail(lines), Ptr(Slice(line, mf.g1so, mf.g1eo)))
             ELSE IF ml.ok /\ pending /= NULL
             THEN << <<Deref(pending), Slice(line, ml.g1so, ml.g1eo),
                       NumField(line, ml.g2so, ml.g2eo), 0>> >>
                      \o GoTwoStateScan(Tail(lines), NULL)
             ELSE GoTwoStateScan(Tail(lines), pending)

\* C18: tm_parse_go_trace behaves as the two-state scan of the lines: a
\* location line emits a frame only if a function line was seen on an
\* earlier line and is still unpaired, and is paired with that function;
\* a line matching neither pattern emits nothing and keeps the pending
\* function; a location line with no pending function emits no frame.
C18_GoTwoStateScan ==
    DoneIn(TM_LANG_GO) =>
        FrameTuples(trace.frames) = GoTwoStateScan(LinesOf(Deref(input)), NULL)

\* The line matches the error pattern of the Python parser from its start.
IsPyErrorLine(line) == py_error_at(line, 0).ok

\* error_type and error_message as the last of the lines that match the
\* error pattern gives them, both NULL when no line matches.
LastPyError(lines) ==
    LET hits == SelectSeq(lines, IsPyErrorLine)
        last == hits[Len(hits)]
        m == py_error_at(last, 0)
    IN  IF hits = <<>> THEN <<NULL, NULL>>
        ELSE <<Ptr(Slice(last, m.g1so, m.g1eo)), Ptr(Slice(last, m.g3so, m.g3eo))>>

\* C19: tm_parse_python_trace takes error_type and error_message from the
\* last line of the text that matches the line-anchored pattern
\* <Identifier>(Error|Exception|Warning): <message>; every later match
\* overwrites an earlier one, so the final exception of a chain wins.
C19_PythonLastErrorWins ==
    DoneIn(TM_LANG_PYTHON) =>
        <<trace.error_type, trace.error_message>> = LastPyError(LinesOf(Deref(input)))

\* C19 has its case: a trace with frames and two headers of different
\* types, whose error_type is that of the later header.
C19_Witness ==
    /\ DoneIn(TM_LANG_PYTHON)
    /\ result /= NULL
    /\ LET hits == SelectSeq(LinesOf(Deref(input)), IsPyErrorLine)
       IN  /\ Len(hits) >= 2
           /\ hits[1] = "ValueError: bad value"
           /\ hits[Len(hits)] = "KeyError: 'k'"
    /\ Deref(result).error_type = Ptr("KeyError")
    /\ Deref(result).error_message = Ptr("'k'")

-----------------------------------------------------------------------------
(* input_format.c: the extraction functions, one call each *)

\* Most fields of a generated JSON log record.
MaxFields == 3

\* The places extract_trace_from_json_obj looks at, as paths from the record.
JsonSlots ==
    {"textPayload", "stack_trace", "exception", "traceback", "stacktrace",
     "error.stack", "err.stack", "jsonPayload.message", "message", "error"}

\* The values a place holds: a text that is no trace, a trace naming its
\* place, and a number; stack_trace, which is not tested for a trace, may be
\* the empty string as well.
JsonSlotValues(slot) ==
    {JString("ok"), JString("panic: " \o slot), JInteger(7)}
    \cup (IF slot = "stack_trace" THEN {JString("")} ELSE {})

\* The key of the record a path starts at.
SlotKey(slot) ==
    IF strchr_from(slot, 0, ".") = -1 THEN slot
    ELSE Slice(slot, 0, strchr_from(slot, 0, "."))

\* The member a path ends at, "" for a place of the record itself.
SlotMember(slot) ==
    IF strchr_from(slot, 0, ".") = -1 THEN ""
    ELSE StrFrom(slot, strchr_from(slot, 0, ".") + 1)

\* The record holding the values vals at the places of its domain.
JsonRecord(vals) ==
    JObject([k \in {SlotKey(slot) : slot \in DOMAIN vals} |->
                Only({IF SlotMember(slot) = "" THEN vals[slot]
                      ELSE JObject((SlotMember(slot) :> vals[slot])) :
                      slot \in {sl \in DOMAIN vals : SlotKey(sl) = k}})])

\* The records of at most n places, no key used twice.
JsonRecords(n) ==
    UNION {{JsonRecord(vals) :
                vals \in {v \in [slots -> UNION {JsonSlotValues(sl) : sl \in slots}] :
                              \A sl \in slots : v[sl] \in JsonSlotValues(sl)}} :
           slots \in {ss \in SUBSET JsonSlots :
                          /\ Cardinality(ss) <= n
                          /\ \A a, b \in ss : SlotKey(a) = SlotKey(b) => a = b}}

\* One call: the function, its arguments (obj, or content and len), what the
\* content was written from (records), and the value returned.
ExtractState(op, obj, records, content, n) ==
    [op |-> op, obj |-> obj, records |-> records, content |-> content, len |-> n,
     ret |-> NULL, pc |-> "call"]

ExtractIdle ==
    /\ input = NULL
    /\ len = 0
    /\ pc = "idle"
    /\ buf = ""
    /\ cursor = 0
    /\ pending_function = NULL
    /\ trace = tm_trace_new
    /\ result = NULL
    /\ csv = NULL
    /\ glog = NULL
    /\ unified = NULL
    /\ scoring = NULL
    /\ detect = NULL
    /\ graph = NULL
    /\ logfmt = NULL
    /\ ast = NULL
    /\ session = NULL

\* extract_trace_from_json_obj(obj, NULL), obj a record or no object at all.
ExtractObjInit ==
    \E obj \in {NULL, Ptr(JInteger(7))} \cup {Ptr(r) : r \in JsonRecords(MaxFields)} :
        extract = ExtractState("extract_trace_from_json_obj", obj, <<>>, NULL, 0)

ExtractTraceFromJsonObj ==
    /\ extract.pc = "call"
    /\ extract.op = "extract_trace_from_json_obj"
    /\ extract' = [extract EXCEPT !.ret = extract_trace_from_json_obj(extract.obj, NULL),
                                  !.pc = "done"]
    /\ UNCHANGED <<traceVars, csv, glog, unified, scoring, detect, graph, logfmt, ast, session>>

\* Most records of a generated log, and most data rows of a generated CSV.
MaxRecords == 2

\* The records of a generated GCP log: with and without an error severity, a
\* message, a sourceLocation; and an element that is no object.
GcpRecords ==
    { JObject(<<>>),
      JObject([severity |-> JString("ERROR")]),
      JObject([severity |-> JString("critical"), textPayload |-> JString("boom")]),
      JObject([severity |-> JString("INFO"), message |-> JString("all good")]),
      JObject([message |-> JString("request failed")]),
      JObject([sourceLocation |-> JObject([file |-> JString("/app/a.go"),
                                           function |-> JString("main.run"),
                                           line |-> JString("12")])]),
      JObject([sourceLocation |-> JObject([file |-> JString("/app/b.go"),
                                           function |-> JString("main.step"),
                                           line |-> JInteger(7)])]),
      JObject([sourceLocation |-> JObject([file |-> JString("/app/c.go")])]),
      JInteger(1) }

\* build_trace_from_gcp_logs(arr), arr an array of records or no array at all.
BuildTraceInit ==
    \E arr \in {NULL, Ptr(JInteger(7))}
               \cup {Ptr(JArray(rs)) : rs \in SeqsUpTo(GcpRecords, MaxRecords)} :
        extract = ExtractState("build_trace_from_gcp_logs", arr, <<>>, NULL, 0)

BuildTraceFromGcpLogs ==
    /\ extract.pc = "call"
    /\ extract.op = "build_trace_from_gcp_logs"
    /\ extract' = [extract EXCEPT !.ret = build_trace_from_gcp_logs(extract.obj),
                                  !.pc = "done"]
    /\ UNCHANGED <<traceVars, csv, glog, unified, scoring, detect, graph, logfmt, ast, session>>

\* The JSON texts a structured input is written from: records with a
\* sourceLocation, a record with neither trace nor sourceLocation, and a
\* record whose message is a trace.
JsonLineDocs ==
    {d \in JsonDocs \cup GcpDocs : d.value.type = "object"}

\* tm_extract_stack_traces(content, len, TM_IFMT_AUTO) on JSON-lines content of
\* at most MaxRecords + 1 lines and on JSON-array content.
ExtractJsonInit ==
    \/ \E ds \in SeqsUpTo(JsonLineDocs, MaxRecords + 1) :
           /\ ds /= <<>>
           /\ extract = ExtractState("tm_extract_stack_traces", NULL,
                            [i \in 1..Len(ds) |-> ds[i].value],
                            Ptr(JoinLines([i \in 1..Len(ds) |-> ds[i].text])),
                            Len(JoinLines([i \in 1..Len(ds) |-> ds[i].text])))
    \/ \E d \in {d \in JsonDocs \cup GcpDocs : d.value.type = "array"} :
           extract = ExtractState("tm_extract_stack_traces", NULL, d.value.value,
                                  Ptr(d.text), Len(d.text))

ExtractStackTraces ==
    /\ extract.pc = "call"
    /\ extract.op = "tm_extract_stack_traces"
    /\ extract' = [extract EXCEPT
                       !.ret = tm_extract_stack_traces(extract.content, extract.len,
                                                       TM_IFMT_AUTO),
                       !.pc = "done"]
    /\ UNCHANGED <<traceVars, csv, glog, unified, scoring, detect, graph, logfmt, ast, session>>

\* The header rows and the data rows of the generated CSV contents, as
\* sequences of unquoted fields.
CsvHeaders ==
    {<<"message">>, <<"timestamp", "message">>, <<"severity", "text">>,
     <<"textPayload", "timestamp">>, <<"id", "name">>}

CsvRowFields == {"panic: x", "goroutine 1", "ok", "t1"}

\* The fields of a row joined by the delimiter.
RECURSIVE JoinFields(_, _)
JoinFields(fields, delim) ==
    IF fields = <<>> THEN ""
    ELSE IF Len(fields) = 1 THEN fields[1]
    ELSE fields[1] \o delim \o JoinFields(Tail(fields), delim)

\* tm_extract_from_csv(content, len, ','): a header row and at most MaxRecords
\* data rows with a field for every column, every row ended by a line feed.
ExtractCsvInit ==
    \E header \in CsvHeaders :
        \E rows \in SeqsUpTo([1..Len(header) -> CsvRowFields], MaxRecords) :
            LET lines == <<header>> \o rows
                content == JoinLines([i \in 1..Len(lines) |-> JoinFields(lines[i], ",")])
            IN  extract = ExtractState("tm_extract_from_csv", NULL, lines,
                                       Ptr(content), Len(content))

ExtractFromCsv ==
    /\ extract.pc = "call"
    /\ extract.op = "tm_extract_from_csv"
    /\ extract' = [extract EXCEPT
                       !.ret = tm_extract_from_csv(extract.content, extract.len, ","),
                       !.pc = "done"]
    /\ UNCHANGED <<traceVars, csv, glog, unified, scoring, detect, graph, logfmt, ast, session>>

ExtractInit ==
    /\ ExtractObjInit \/ BuildTraceInit \/ ExtractJsonInit \/ ExtractCsvInit
    /\ ExtractIdle

ExtractNext ==
    \/ ExtractTraceFromJsonObj
    \/ BuildTraceFromGcpLogs
    \/ ExtractStackTraces
    \/ ExtractFromCsv

SpecExtract == ExtractInit /\ [][ExtractNext]_vars

\* The places of C21 in the order of their priority, each with the test its
\* string has to pass.
C21_Priority ==
    <<"textPayload", "stack_trace", "exception", "traceback", "stacktrace",
      "error.stack", "err.stack", "jsonPayload.message", "message", "error">>

\* The string the record holds at the place of rank i, NULL when it holds none.
C21_Candidate(obj, i) ==
    LET slot == C21_Priority[i]
        top == IF SlotKey(slot) \in DOMAIN obj.value THEN Ptr(obj.value[SlotKey(slot)])
               ELSE NULL
        at == IF SlotMember(slot) = "" THEN top
              ELSE IF top /= NULL /\ Deref(top).type = "object"
                      /\ SlotMember(slot) \in DOMAIN Deref(top).value
              THEN Ptr(Deref(top).value[SlotMember(slot)])
              ELSE NULL
    IN  IF at /= NULL /\ Deref(at).type = "string" THEN Ptr(Deref(at).value) ELSE NULL

C21_Qualifies(obj, i) ==
    /\ C21_Candidate(obj, i) /= NULL
    /\ IF C21_Priority[i] = "stack_trace" THEN Deref(C21_Candidate(obj, i)) /= ""
       ELSE looks_like_stack_trace(Deref(C21_Candidate(obj, i)))

\* C21: extract_trace_from_json_obj returns the candidate of the highest
\* priority that qualifies, in the order textPayload, stack_trace, the fixed
\* trace-field list, jsonPayload.message, message, error; every candidate has
\* to pass the stack-trace heuristic except stack_trace, which only has to be
\* a non-empty string; nothing is returned when no candidate qualifies.
C21_HighestPriorityCandidate ==
    (/\ extract /= NULL
     /\ extract.op = "extract_trace_from_json_obj"
     /\ extract.pc = "done"
     /\ extract.obj /= NULL
     /\ Deref(extract.obj).type = "object")
    => LET obj == Deref(extract.obj)
           qualifying == {i \in 1..Len(C21_Priority) : C21_Qualifies(obj, i)}
       IN  IF qualifying = {} THEN extract.ret = NULL
           ELSE extract.ret = C21_Candidate(obj, Least(qualifying))

\* A stack_trace that is no trace is returned past a textPayload that fails
\* the heuristic, and before a message that is a trace.
C21_Witness ==
    /\ extract /= NULL
    /\ extract.op = "extract_trace_from_json_obj"
    /\ extract.pc = "done"
    /\ extract.obj /= NULL
    /\ Deref(extract.obj).type = "object"
    /\ DOMAIN Deref(extract.obj).value = {"textPayload", "stack_trace", "message"}
    /\ Deref(extract.obj).value["textPayload"] = JString("ok")
    /\ Deref(extract.obj).value["stack_trace"] = JString("ok")
    /\ Deref(extract.obj).value["message"] = JString("panic: message")
    /\ extract.ret = Ptr("ok")

\* Whether a record has a sourceLocation object with a function and a file,
\* both strings.
C22_HasTriple(r) ==
    /\ r.type = "object"
    /\ "sourceLocation" \in DOMAIN r.value
    /\ r.value["sourceLocation"].type = "object"
    /\ {"function", "file"} \subseteq DOMAIN r.value["sourceLocation"].value
    /\ r.value["sourceLocation"].value["function"].type = "string"
    /\ r.value["sourceLocation"].value["file"].type = "string"

\* The frame pair of a record that has a triple: the function line and the
\* location line.
C22_FramePair(r) ==
    LET sl == r.value["sourceLocation"].value
        line == IF "line" \notin DOMAIN sl THEN "0"
                ELSE IF sl["line"].type = "string" THEN sl["line"].value
                ELSE IF sl["line"].type = "integer" THEN ToString(sl["line"].value)
                ELSE "0"
    IN  sl["function"].value \o "(...)\n" \o "\t" \o sl["file"].value \o ":" \o line
        \o " +0x0\n"

RECURSIVE C22_FramePairs(_)
C22_FramePairs(records) ==
    IF records = <<>> THEN ""
    ELSE (IF C22_HasTriple(Head(records)) THEN C22_FramePair(Head(records)) ELSE "")
         \o C22_FramePairs(Tail(records))

\* C22: for a structured JSON input, JSON-lines as well as JSON-array, in
\* which no record yields a trace and at least one record has a
\* sourceLocation with function and file, extraction returns a synthetic
\* Go-style trace: the goroutine line, then one function/location pair per
\* such record, in input order.
C22_SyntheticTraceFromRecords ==
    (/\ extract /= NULL
     /\ extract.op = "tm_extract_stack_traces"
     /\ extract.pc = "done"
     /\ \A i \in 1..Len(extract.records) :
            extract_trace_from_json_obj(Ptr(extract.records[i]), NULL) = NULL
     /\ \E i \in 1..Len(extract.records) : C22_HasTriple(extract.records[i]))
    => LET synthetic == "goroutine 1 [running]:\n" \o C22_FramePairs(extract.records)
       IN  /\ extract.ret /= NULL
           /\ Len(Deref(extract.ret)) >= Len(synthetic)
           /\ StrFrom(Deref(extract.ret), Len(Deref(extract.ret)) - Len(synthetic))
              = synthetic

\* Whether a record has a message extract_gcp_message finds.
C23_Message(r) ==
    IF r.type /= "object" THEN NULL
    ELSE LET str(o, k) == k \in DOMAIN o /\ o[k].type = "string"
             obj(o, k) == k \in DOMAIN o /\ o[k].type = "object"
         IN  IF obj(r.value, "jsonPayload") /\ obj(r.value["jsonPayload"].value, "message")
                /\ str(r.value["jsonPayload"].value["message"].value, "message")
             THEN Ptr(r.value["jsonPayload"].value["message"].value["message"].value)
             ELSE IF obj(r.value, "jsonPayload") /\ str(r.value["jsonPayload"].value, "message")
             THEN Ptr(r.value["jsonPayload"].value["message"].value)
             ELSE IF obj(r.value, "jsonPayload") /\ str(r.value["jsonPayload"].value, "msg")
             THEN Ptr(r.value["jsonPayload"].value["msg"].value)
             ELSE IF str(r.value, "textPayload") THEN Ptr(r.value["textPayload"].value)
             ELSE IF str(r.value, "message") THEN Ptr(r.value["message"].value)
             ELSE NULL

\* Whether a record has an error-like message: an ERROR, CRITICAL or FATAL
\* severity with a message, or a message containing error or fail.
C23_ErrorLike(r) ==
    /\ C23_Message(r) /= NULL
    /\ \/ /\ "severity" \in DOMAIN r.value
          /\ r.value["severity"].type = "string"
          /\ StrLower(r.value["severity"].value) \in {"error", "critical", "fatal"}
       \/ \E word \in {"error", "Error", "fail", "Fail"} :
              strstr(Deref(C23_Message(r)), word)

\* C23: build_trace_from_gcp_logs yields NULL whenever the records contain no
\* sourceLocation triple and no error-like message, i.e. no record of
\* severity ERROR, CRITICAL or FATAL with an extractable message and no
\* record whose message contains error or fail.
C23_NothingWithoutTripleOrError ==
    (/\ extract /= NULL
     /\ extract.op = "build_trace_from_gcp_logs"
     /\ extract.pc = "done"
     /\ extract.obj /= NULL
     /\ Deref(extract.obj).type = "array"
     /\ \A i \in 1..Len(Deref(extract.obj).value) :
            /\ ~C22_HasTriple(Deref(extract.obj).value[i])
            /\ ~C23_ErrorLike(Deref(extract.obj).value[i]))
    => extract.ret = NULL

\* The column of the header the text is taken from: the first of
\* textPayload, message, text, log that the header has, 0 when it has none.
C24_TextColumn(header) ==
    LET col(name) == {i \in 1..Len(header) : StrLower(header[i]) = StrLower(name)}
        names == <<"textPayload", "message", "text", "log">>
        found == {k \in 1..Len(names) : col(names[k]) /= {}}
    IN  IF found = {} THEN 0 ELSE Least(col(names[Least(found)]))

\* The texts of the rows from index i on that pass the heuristic, in order.
RECURSIVE C24_KeptTexts(_, _, _)
C24_KeptTexts(lines, i, col) ==
    IF i > Len(lines) THEN <<>>
    ELSE (IF looks_like_stack_trace(lines[i][col]) THEN <<lines[i][col]>> ELSE <<>>)
         \o C24_KeptTexts(lines, i + 1, col)

\* C24: tm_extract_from_csv treats only the first line as the header row
\* and, for every following data row, keeps an entry iff the row's text
\* column passes the stack-trace heuristic, in row order.
C24_HeaderIsFirstLineOnly ==
    (/\ extract /= NULL
     /\ extract.op = "tm_extract_from_csv"
     /\ extract.pc = "done"
     /\ C24_TextColumn(extract.records[1]) > 0)
    => LET kept == C24_KeptTexts(extract.records, 2, C24_TextColumn(extract.records[1]))
           texts == IF extract.ret = NULL THEN <<>>
                    ELSE [i \in 1..Len(Deref(extract.ret)) |-> Deref(extract.ret)[i].text]
       IN  texts = kept

-----------------------------------------------------------------------------
(* input_format.c: tm_detect_log_format, one call *)

\* Most lines of a generated log content.
MaxFormatLines == 3

\* The lines of the generated contents: Docker lines with stdout and stderr
\* behind a 23-byte timestamp, a line naming a container, lines without any
\* marker, a JSON line, a syslog line and an empty line.
FormatLines ==
    {"2024-01-01T00:00:00.000 stdout ready", "2024-01-01T00:00:01.000 stderr oops",
     "restarting container web-1 on host alpha", "hello",
     "a long line of text without any marker at all", "{\"a\":1}",
     "Jan 12 10:00:00 host app: started", ""}

LogFormatInit ==
    /\ \E lines \in SeqsUpTo(FormatLines, MaxFormatLines) :
           logfmt = [lines |-> lines, content |-> Ptr(JoinLines(lines)),
                     len |-> Len(JoinLines(lines)), ret |-> NULL, pc |-> "call"]
    /\ input = NULL
    /\ len = 0
    /\ pc = "idle"
    /\ buf = ""
    /\ cursor = 0
    /\ pending_function = NULL
    /\ trace = tm_trace_new
    /\ result = NULL
    /\ csv = NULL
    /\ glog = NULL
    /\ unified = NULL
    /\ scoring = NULL
    /\ detect = NULL
    /\ graph = NULL
    /\ extract = NULL
    /\ ast = NULL
    /\ session = NULL

DetectLogFormat ==
    /\ logfmt.pc = "call"
    /\ logfmt' = [logfmt EXCEPT !.ret = Ptr(tm_detect_log_format(logfmt.content, logfmt.len)),
                                !.pc = "done"]
    /\ UNCHANGED <<traceVars, csv, glog, unified, scoring, detect, graph, extract, ast, session>>

LogFormatNext == DetectLogFormat

SpecLogFormat == LogFormatInit /\ [][LogFormatNext]_vars

\* Whether a line carries a Docker marker: stdout or stderr behind the
\* timestamp, or the word docker or container, in a line of more than 30 bytes.
C25_DockerMarker(line) ==
    /\ Len(line) > 30
    /\ \/ LitAt(line, 23, " stdout ") \/ LitAt(line, 23, " stderr ")
       \/ strstr(line, "docker") \/ strstr(line, "container")

C25_JsonLine(line) == Len(line) > 2 /\ CharAt(line, 0) = "{"

C25_SyslogLine(line) ==
    /\ Len(line) > 15
    /\ \/ CharAt(line, 0) = "<"
       \/ (\A i \in 0..2 : CharAt(line, i) \in Alpha) /\ CharAt(line, 3) = " "
    /\ strstr(line, ": ")

C25_NginxLine(line) ==
    /\ Len(line) > 20
    /\ \E b \in 0..(Len(line) - 1) :
           /\ CharAt(line, b) = "["
           /\ \E q \in (b + 1)..(Len(line) - 1) : CharAt(line, q) = "\""
           /\ \A q \in 0..b : CharAt(line, q) /= "\""
           /\ \E d \in 0..(b - 1) : CharAt(line, d) = "."

\* C25: for content with no stack-trace pattern and no JSON, NGINX or syslog
\* majority, tm_detect_log_format returns Docker whenever at least one third
\* of the sampled non-empty lines carry a Docker marker, exactly one third
\* (1 of 3) included.
C25_DockerAtOneThird ==
    (/\ logfmt /= NULL
     /\ logfmt.pc = "done")
    => LET sampled == {i \in 1..Len(logfmt.lines) : logfmt.lines[i] /= ""}
           count(P(_)) == Cardinality({i \in sampled : P(logfmt.lines[i])})
       IN  (/\ ~tm_has_stack_trace_patterns(logfmt.content, logfmt.len)
            /\ Cardinality(sampled) <= max_sample
            /\ 2 * count(C25_JsonLine) <= Cardinality(sampled)
            /\ 2 * count(C25_NginxLine) <= Cardinality(sampled)
            /\ 2 * count(C25_SyslogLine) <= Cardinality(sampled)
            /\ count(C25_DockerMarker) >= 1
            /\ 3 * count(C25_DockerMarker) >= Cardinality(sampled))
           => logfmt.ret = Ptr(TM_LOG_FMT_DOCKER)

-----------------------------------------------------------------------------
(* tm_graph_builder_build: how a frame finds its function *)

\* The function C26 gives a frame in a file of the functions funcs: the first
\* of the frame's name, else the first of least span around the frame's
\* line, NULL when there is neither.
C26_Function(frame, funcs) ==
    LET named == {i \in 1..Len(funcs) :
                     frame.function /= NULL /\ funcs[i].name = Deref(frame.function)}
        around == {i \in 1..Len(funcs) :
                      funcs[i].start_line <= frame.line /\ frame.line <= funcs[i].end_line}
        span(i) == funcs[i].end_line - funcs[i].start_line
        innermost == {i \in around : \A j \in around : span(i) <= span(j)}
    IN  IF named /= {} THEN Ptr(funcs[Least(named)])
        ELSE IF around /= {} THEN Ptr(funcs[Least(innermost)])
        ELSE NULL

\* The nodes C26 gives the frames from index i on, as (frame, name, start_line,
\* end_line): one for each frame that is looked up and finds a function.
RECURSIVE C26_Nodes(_)
C26_Nodes(i) ==
    IF i >= Len(graph.frames) THEN <<>>
    ELSE LET frame == graph.frames[i + 1]
             looked_up == /\ ~graph_frame_skipped(graph, frame)
                          /\ graph_full_path(frame) \in DOMAIN Repo
             func == C26_Function(frame, Repo[graph_full_path(frame)])
         IN  (IF looked_up /\ func /= NULL
              THEN <<[frame |-> i, name |-> Deref(func).name,
                      start_line |-> Deref(func).start_line,
                      end_line |-> Deref(func).end_line]>>
              ELSE <<>>)
             \o C26_Nodes(i + 1)

-----------------------------------------------------------------------------
(* ast.c (Tree-sitter build): function extraction and complexity.

   A syntax node (TSNode) is a record of its type, its bytes [start_byte,
   end_byte), its rows, from 0, its children and its fields, a function from
   the field names it has to the index of the child.  The tree of a file is
   what Tree-sitter made of the source; it is given with the file. *)

TsNode(type, start_byte, end_byte, start_row, end_row, children, fields) ==
    [type |-> type, start_byte |-> start_byte, end_byte |-> end_byte,
     start_row |-> start_row, end_row |-> end_row, children |-> children,
     fields |-> fields]

\* ts_node_child_by_field_name(node, field, strlen(field)): NULL for the null node.
ts_node_child_by_field_name(node, field) ==
    IF field \in DOMAIN node.fields THEN Ptr(node.children[node.fields[field]]) ELSE NULL

\* node_text(file, node): NULL or <<text>>.
node_text(file, node) ==
    IF node.end_byte <= node.start_byte \/ node.end_byte > file.source_len THEN NULL
    ELSE Ptr(tm_strndup(StrFrom(file.source, node.start_byte),
                        node.end_byte - node.start_byte))

\* find_functions_recursive: whether the node is a function definition of
\* the language of the file.
ast_is_func(file, type) ==
    CASE file.language = TM_LANG_PYTHON -> type = "function_definition"
      [] file.language = TM_LANG_GO ->
             type \in {"function_declaration", "method_declaration"}
      [] file.language = TM_LANG_NODEJS ->
             type \in {"function_declaration", "method_definition"}
      [] OTHER -> FALSE

\* find_functions_recursive: the signature of a function of the name name;
\* the inputs give every name node a text.
ast_signature(file, node, name) ==
    LET params_node == ts_node_child_by_field_name(node, "parameters")
        params == node_text(file, Deref(params_node))
    IN  IF params_node /= NULL
        THEN Deref(name) \o (IF params /= NULL THEN Deref(params) ELSE "()")
        ELSE Deref(name)

\* find_functions_recursive(file, node, funcs, ...): funcs afterwards, and
\* its loop over the children of node from index i on.
RECURSIVE find_functions_recursive(_, _, _)
RECURSIVE find_functions_children(_, _, _, _)
find_functions_recursive(file, node, funcs) ==
    LET name_node == ts_node_child_by_field_name(node, "name")
        name == node_text(file, Deref(name_node))
        found == IF ast_is_func(file, node.type) /\ name_node /= NULL
                 THEN Append(funcs, [name |-> name, qualified_name |-> name,
                                     start_line |-> node.start_row + 1,
                                     end_line |-> node.end_row + 1,
                                     node |-> node,
                                     signature |-> ast_signature(file, node, name)])
                 ELSE funcs
    IN  find_functions_children(file, node.children, 1, found)

find_functions_children(file, children, i, funcs) ==
    IF i > Len(children) THEN funcs
    ELSE find_functions_children(file, children, i + 1,
                                 find_functions_recursive(file, children[i], funcs))

\* tm_extract_functions(file, &funcs, &count): funcs.
tm_extract_functions(file) == find_functions_recursive(file, file.tree, <<>>)

\* count_complexity_nodes: the node types that count.
ast_decision_types ==
    {"if_statement", "elif_clause", "for_statement", "while_statement",
     "for_in_statement", "try_statement", "except_clause", "case_clause",
     "switch_statement", "conditional_expression", "ternary_expression",
     "and_expression", "or_expression", "&&", "||"}

\* count_complexity_nodes(file, node, start_line, end_line), and its loop
\* over the children of node from index i on.
RECURSIVE count_complexity_nodes(_, _, _, _)
RECURSIVE count_complexity_children(_, _, _, _, _)
count_complexity_nodes(file, node, start_line, end_line) ==
    IF node.start_row + 1 < start_line \/ node.start_row + 1 > end_line THEN 0
    ELSE (IF node.type \in ast_decision_types THEN 1 ELSE 0)
         + count_complexity_children(file, node.children, 1, start_line, end_line)

count_complexity_children(file, children, i, start_line, end_line) ==
    IF i > Len(children) THEN 0
    ELSE count_complexity_nodes(file, children[i], start_line, end_line)
         + count_complexity_children(file, children, i + 1, start_line, end_line)

\* tm_compute_complexity(file, func): file and func are NULL or <<value>>.
tm_compute_complexity(file, func) ==
    IF file = NULL \/ func = NULL THEN 0
    ELSE 1 + count_complexity_nodes(Deref(file), Deref(file).tree,
                                    Deref(func).start_line, Deref(func).end_line)

(* The source files: Python functions one after another, after a first
   statement or without one; a function has a name, a parameter list or
   none, and a body of some if statements and a pass. *)

\* Most functions of a generated file, and most if statements of a function.
MaxDefs == 2
MaxDecisions == 2

AstDefs ==
    [name : {"f"}, params : {NULL, Ptr("()"), Ptr("(a, b)")}, decisions : 0..MaxDecisions]
    \cup {[name |-> "run", params |-> Ptr("(a, b)"), decisions |-> 1]}

RECURSIVE AstRepeat(_, _)
AstRepeat(s, n) == IF n = 0 THEN "" ELSE s \o AstRepeat(s, n - 1)

AstDefText(d) ==
    "def " \o d.name \o (IF d.params = NULL THEN "" ELSE Deref(d.params)) \o ":\n"
    \o AstRepeat("  if x:\n", d.decisions) \o "  pass\n"

\* The node of the definition d written at byte and row.
AstDefNode(d, byte, row) ==
    LET name_end == byte + 4 + Len(d.name)
        params_end == name_end + (IF d.params = NULL THEN 0 ELSE Len(Deref(d.params)))
        body == params_end + 2
        leaf(type, from, to, r) == TsNode(type, from, to, r, r, <<>>, <<>>)
        ifs == [k \in 1..d.decisions |->
                   leaf("if_statement", body + 8 * (k - 1) + 2, body + 8 * k - 1, row + k)]
        pass == leaf("pass_statement", body + 8 * d.decisions + 2,
                     body + 8 * d.decisions + 6, row + d.decisions + 1)
        block == TsNode("block", body + 2, body + 8 * d.decisions + 6, row + 1,
                        row + d.decisions + 1, Append(ifs, pass), <<>>)
        name == leaf("identifier", byte + 4, name_end, row)
    IN  IF d.params = NULL
        THEN TsNode("function_definition", byte, body + 8 * d.decisions + 6, row,
                    row + d.decisions + 1, <<name, block>>, ("name" :> 1))
        ELSE TsNode("function_definition", byte, body + 8 * d.decisions + 6, row,
                    row + d.decisions + 1,
                    <<name, leaf("parameters", name_end, params_end, row), block>>,
                    ("name" :> 1) @@ ("parameters" :> 2))

RECURSIVE AstDefNodes(_, _, _)
AstDefNodes(defs, byte, row) ==
    IF defs = <<>> THEN <<>>
    ELSE <<AstDefNode(Head(defs), byte, row)>>
         \o AstDefNodes(Tail(defs), byte + Len(AstDefText(Head(defs))),
                        row + Head(defs).decisions + 2)

RECURSIVE AstDefTexts(_)
AstDefTexts(defs) ==
    IF defs = <<>> THEN "" ELSE AstDefText(Head(defs)) \o AstDefTexts(Tail(defs))

\* The number of lines the definitions take.
RECURSIVE AstDefRows(_)
AstDefRows(defs) ==
    IF defs = <<>> THEN 0 ELSE Head(defs).decisions + 2 + AstDefRows(Tail(defs))

\* The tm_source_file_t of the definitions defs after the first statement
\* first, which may be "".
AstFile(first, defs) ==
    LET source == first \o AstDefTexts(defs)
        rows == IF first = "" THEN 0 ELSE 1
    IN  [language |-> TM_LANG_PYTHON, source |-> source, source_len |-> Len(source),
         tree |-> TsNode("module", 0, Len(source), 0,
                         rows + AstDefRows(defs),
                         (IF first = "" THEN <<>>
                          ELSE <<TsNode("expression_statement", 0, Len(first) - 1, 0, 0,
                                        <<>>, <<>>)>>)
                         \o AstDefNodes(defs, Len(first), rows),
                         <<>>)]

\* The files of at most n functions.
AstFiles(n) ==
    {AstFile(first, defs) : first \in {"", "x = 1\n"}, defs \in SeqsUpTo(AstDefs, n)}

AstInit ==
    /\ \E file \in AstFiles(MaxDefs) :
           ast = [file |-> file, funcs |-> <<>>, k |-> 0, complexity |-> <<>>,
                  pc |-> "extract"]
    /\ input = NULL
    /\ len = 0
    /\ pc = "idle"
    /\ buf = ""
    /\ cursor = 0
    /\ pending_function = NULL
    /\ trace = tm_trace_new
    /\ result = NULL
    /\ csv = NULL
    /\ glog = NULL
    /\ unified = NULL
    /\ scoring = NULL
    /\ detect = NULL
    /\ graph = NULL
    /\ extract = NULL
    /\ logfmt = NULL
    /\ session = NULL

\* tm_extract_functions(file, &funcs, &count)
ExtractFunctions ==
    /\ ast.pc = "extract"
    /\ ast' = [ast EXCEPT !.funcs = tm_extract_functions(ast.file), !.pc = "complexity"]
    /\ UNCHANGED <<traceVars, csv, glog, unified, scoring, detect, graph, extract, logfmt,
                   session>>

\* tm_compute_complexity(file, &funcs[k]), for the extracted functions in turn.
ComputeComplexity ==
    /\ ast.pc = "complexity"
    /\ ast.k < Len(ast.funcs)
    /\ ast' = [ast EXCEPT
                   !.complexity = Append(@, tm_compute_complexity(Ptr(ast.file),
                                                                  Ptr(ast.funcs[ast.k + 1]))),
                   !.k = @ + 1]
    /\ UNCHANGED <<traceVars, csv, glog, unified, scoring, detect, graph, extract, logfmt,
                   session>>

AstNext ==
    \/ ExtractFunctions
    \/ ComputeComplexity

SpecAst == AstInit /\ [][AstNext]_vars

\* C27: the signature of every extracted function is its name followed by
\* the source text of its parameter list, and its name followed by "()" when
\* the function node has no parameter child.
C27_SignatureIsNameAndParameters ==
    (ast /= NULL /\ ast.pc = "complexity")
    => \A k \in 1..Len(ast.funcs) :
           LET func == ast.funcs[k]
               node == func.node
               name == SubSeq(ast.file.source, node.children[node.fields["name"]].start_byte + 1,
                              node.children[node.fields["name"]].end_byte)
           IN  func.signature
               = name \o (IF "parameters" \in DOMAIN node.fields
                          THEN SubSeq(ast.file.source,
                                      node.children[node.fields["parameters"]].start_byte + 1,
                                      node.children[node.fields["parameters"]].end_byte)
                          ELSE "()")

\* All the nodes of the tree under node, node included.
RECURSIVE C28_Nodes(_)
C28_Nodes(node) ==
    {node} \cup UNION {C28_Nodes(node.children[i]) : i \in 1..Len(node.children)}

\* C28: tm_compute_complexity(file, func) is 1 plus the number of
\* decision-point nodes of the tree that lie inside the lines
\* [start_line, end_line] of func, wherever func starts in the file.
C28_ComplexityCountsWindow ==
    (ast /= NULL /\ ast.pc = "complexity")
    => \A k \in 1..Len(ast.complexity) :
           ast.complexity[k]
           = 1 + Cardinality({n \in C28_Nodes(ast.file.tree) :
                                 /\ n.type \in ast_decision_types
                                 /\ n.start_row + 1 >= ast.funcs[k].start_line
                                 /\ n.start_row + 1 <= ast.funcs[k].end_line})

-----------------------------------------------------------------------------
(* ast.c (Tree-sitter build): the file cache of a graph builder.

   A tm_source_file_t of the cache is a record of its path and of the
   allocation it is, numbered in the order of the successful parses; whether
   tm_parse_source_file succeeds on a path is up to the file system at the
   time of the call. *)

\* Most calls of tm_graph_builder_get_file in a session.
MaxCalls == 6

SessionPaths == {"/r/a.py", "/r/b.py", "/r/missing.py"}

\* tm_graph_builder_get_file that parses without looking into the cache.
tm_graph_builder_get_file_uncached(b, path, parsed) ==
    IF path = NULL THEN [builder |-> b, file |-> NULL, err |-> TM_ERR_INVALID_ARG,
                         parsed |-> FALSE]
    ELSE IF ~parsed
    THEN [builder |-> b, file |-> NULL, err |-> TM_ERR_IO, parsed |-> FALSE]
    ELSE LET new_file == [path |-> Deref(path), id |-> b.allocated + 1]
         IN  [builder |-> [b EXCEPT !.files = Append(@, new_file),
                                    !.file_capacity =
                                        IF Len(b.files) >= @
                                        THEN (IF @ = 0 THEN 8 ELSE @ * 2) ELSE @,
                                    !.allocated = @ + 1],
              file |-> Ptr(new_file), err |-> TM_OK, parsed |-> TRUE]

\* tm_graph_builder_get_file(builder, path, &file) on a builder that is not
\* NULL: the builder afterwards, *file, the error code, and whether
\* tm_parse_source_file made a file; parsed says whether it can.
tm_graph_builder_get_file_cached(b, path, parsed) ==
    IF path = NULL THEN [builder |-> b, file |-> NULL, err |-> TM_ERR_INVALID_ARG,
                         parsed |-> FALSE]
    ELSE LET hits == {i \in 1..Len(b.files) : b.files[i].path = Deref(path)}
         IN  IF hits /= {}
             THEN [builder |-> b, file |-> Ptr(b.files[Least(hits)]), err |-> TM_OK,
                   parsed |-> FALSE]
             ELSE tm_graph_builder_get_file_uncached(b, path, parsed)

\* tm_graph_builder_new: the cache is empty.
SessionInit ==
    /\ session = [builder |-> Ptr([files |-> <<>>, file_capacity |-> 0, allocated |-> 0]),
                  calls |-> 0, path |-> NULL, file |-> NULL, err |-> NULL,
                  parses |-> <<>>]
    /\ input = NULL
    /\ len = 0
    /\ pc = "idle"
    /\ buf = ""
    /\ cursor = 0
    /\ pending_function = NULL
    /\ trace = tm_trace_new
    /\ result = NULL
    /\ csv = NULL
    /\ glog = NULL
    /\ unified = NULL
    /\ scoring = NULL
    /\ detect = NULL
    /\ graph = NULL
    /\ extract = NULL
    /\ logfmt = NULL
    /\ ast = NULL

\* tm_graph_builder_get_file(builder, path, &file); parses is the list of the
\* paths tm_parse_source_file has made a file of.
SessionGetFile ==
    /\ session.builder /= NULL
    /\ session.calls < MaxCalls
    /\ \E path \in {NULL} \cup {Ptr(p) : p \in SessionPaths}, parsed \in BOOLEAN :
           /\ parsed => path /= NULL /\ Deref(path) \in DOMAIN Repo
           /\ LET r == tm_graph_builder_get_file_cached(Deref(session.builder), path, parsed)
              IN  session' = [builder |-> Ptr(r.builder), calls |-> session.calls + 1,
                              path |-> path, file |-> r.file, err |-> Ptr(r.err),
                              parses |-> IF r.parsed THEN Append(session.parses, Deref(path))
                                         ELSE session.parses]
    /\ UNCHANGED <<traceVars, csv, glog, unified, scoring, detect, graph, extract, logfmt, ast>>

\* tm_graph_builder_free(builder): the files of the cache and the builder are freed.
SessionFree ==
    /\ session.builder /= NULL
    /\ session' = [session EXCEPT !.builder = NULL, !.path = NULL, !.file = NULL,
                                  !.err = NULL]
    /\ UNCHANGED <<traceVars, csv, glog, unified, scoring, detect, graph, extract, logfmt, ast>>

SessionNext ==
    \/ SessionGetFile
    \/ SessionFree

SpecSession == SessionInit /\ [][SessionNext]_vars

\* The cache of the session, <<>> once the session is freed.
SessionCache == IF session.builder = NULL THEN <<>> ELSE Deref(session.builder).files

\* C29: within one session each path is parsed successfully at most once and
\* the cache never holds two entries of one path; a call for a cached path
\* returns the cached file and parses nothing; and the entries of the cache
\* stay, in place, until the session is freed.
C29_ParsedAtMostOnce ==
    /\ [](session /= NULL =>
            /\ \A i, j \in 1..Len(session.parses) :
                   session.parses[i] = session.parses[j] => i = j
            /\ \A i, j \in 1..Len(SessionCache) :
                   SessionCache[i].path = SessionCache[j].path => i = j)
    /\ [][/\ (/\ session'.calls = session.calls + 1
              /\ session'.path /= NULL
              /\ \E i \in 1..Len(SessionCache) : SessionCache[i].path = Deref(session'.path))
             => /\ session'.parses = session.parses
                /\ session'.err = Ptr(TM_OK)
                /\ session'.file /= NULL
                /\ \E i \in 1..Len(SessionCache) : SessionCache[i] = Deref(session'.file)
          /\ session'.builder /= NULL
             => /\ Len(SessionCache') >= Len(SessionCache)
                /\ SubSeq(SessionCache', 1, Len(SessionCache)) = SessionCache]_vars

\* Both files are cached, a.py was asked for twice and parsed once, and the
\* second call returned the file of the first.
C29_Witness ==
    /\ session /= NULL
    /\ session.builder /= NULL
    /\ session.calls = 3
    /\ session.parses = <<"/r/a.py", "/r/b.py">>
    /\ session.path = Ptr("/r/a.py")
    /\ session.file = Ptr([path |-> "/r/a.py", id |-> 1])
    /\ Len(SessionCache) = 2

-----------------------------------------------------------------------------
(* tm_parse_nodejs_trace: the bytes it reads *)

\* C30: while scanning, tm_parse_nodejs_trace reads only bytes of the input:
\* when the pass it is about to make takes the look-behind of a bare-frame
\* match, the position five bytes before the match is at or after the first
\* byte of the buffer.
C30_LookBehindInsideInput ==
    (/\ pc = "node_scan"
     /\ CharAt(buf, cursor) /= ""
     /\ ~node_frame_re(buf, cursor).ok
     /\ node_frame_bare_re(buf, cursor).ok)
    => node_frame_bare_re(buf, cursor).so - 5 >= 0

=============================================================================
